---- MODULE Spec2Model ----
(***************************************************************************)
(* Model of the media downloader:                                          *)
(*   - DownloadService   (dispatch, blob / direct / embedded paths and the *)
(*                        three-backend YouTube chain)                     *)
(*   - MediaGrid         (handleDownload / handleDownloadAll)              *)
(*   - the yt-dlp server (POST /api/download-youtube, quality options)     *)
(*   - MediaDetectionService (detectMedia and its extract* passes)         *)
(* URLs, file names and error messages are the program's own strings.      *)
(***************************************************************************)
EXTENDS Integers, Sequences, FiniteSets, TLC

\* ---- one DownloadService.downloadMedia(item) call ----
\* the MediaItem passed to downloadMedia
VARIABLE item
\* position of the call: "start", an await point, "resolved", "rejected"
VARIABLE pc
\* branch taken by downloadMedia: "none", "blob", "embedded", "direct"
VARIABLE path
\* index i of the loop over downloadServices (0 = loop not entered)
VARIABLE svc
\* status of the response the call is currently holding (0 = none)
VARIABLE resp
\* browser primitives called so far, in order
VARIABLE log
\* backends of downloadServices invoked so far, in order
VARIABLE invoked
\* message of the error each backend threw ("" = none)
VARIABLE svcErr
\* the backends whose promise fulfilled
VARIABLE svcOk
\* lastError?.message of downloadYouTubeVideo ("" = lastError is null)
VARIABLE lastError
\* message of the error thrown by downloadYouTubeVideo ("" = none)
VARIABLE chainError
\* "pending", "ok", or the message of the error downloadMedia rejects with
VARIABLE result

\* ---- MediaGrid ----
\* useState: URLs with a download in progress
VARIABLE downloadingItems
\* useState: URLs already downloaded
VARIABLE downloadedItems
\* useState: progress percentage by URL
VARIABLE downloadProgress
\* the handleDownload invocations that passed the guard, in start order
VARIABLE attempts
\* the handleDownloadAll invocations that entered the loop, in start order
VARIABLE runs
\* number of individual Download clicks so far
VARIABLE clicks

\* ---- the yt-dlp server ----
\* the POST /api/download-youtube requests, by request number
VARIABLE requests
\* the file system under os.tmpdir(): files of every existing temp directory
VARIABLE fs
\* the subprocesses spawned so far, in order
VARIABLE procs
\* the server process died of an uncaught exception
VARIABLE crashed

\* ---- one MediaDetectionService.detectMedia(url) call ----
\* the url passed to detectMedia
VARIABLE pageUrl
\* position of the call: "start", "fetch", "body", "returned", "threw"
VARIABLE dpc
\* number of fetch calls detectMedia has made
VARIABLE fetched
\* what made the try block throw ("" = nothing did)
VARIABLE failure
\* the elements of the document DOMParser produced
VARIABLE doc
\* the local mediaItems: the descriptors collected before the duplicate filter
VARIABLE mediaItems
\* the list detectMedia resolved with
VARIABLE detected

\* ---- one DownloadService.downloadAll(items) call ----
\* the items passed, the downloadPromises made from them, and the position of
\* the call: "start", "await", "resolved", "rejected"
VARIABLE bulk

dlVars == <<item, pc, path, svc, resp, log, invoked, svcErr, svcOk, lastError, chainError, result>>

gridVars == <<downloadingItems, downloadedItems, downloadProgress, attempts, runs, clicks>>

serverVars == <<requests, fs, procs, crashed>>

detectVars == <<pageUrl, dpc, fetched, failure, doc, mediaItems, detected>>

vars == <<dlVars, gridVars, serverVars, detectVars, bulk>>

\* what a step of one component leaves alone
notDL == <<gridVars, serverVars, detectVars, bulk>>
notGrid == <<dlVars, serverVars, detectVars, bulk>>
notServer == <<dlVars, gridVars, detectVars, bulk>>
notDetect == <<dlVars, gridVars, serverVars, bulk>>
notBulk == <<dlVars, gridVars, serverVars, detectVars>>

--------------------------------------------------------------------------
(* String primitives of the JavaScript runtime *)

Min(S) == CHOOSE x \in S : \A y \in S : x <= y
Max(S) == CHOOSE x \in S : \A y \in S : x >= y

\* s.substring starting at i that equals t
StartsAt(s, i, t) == i >= 1 /\ i + Len(t) - 1 <= Len(s) /\ SubSeq(s, i, i + Len(t) - 1) = t

\* String.prototype.includes
Includes(s, t) == \E i \in 1..(Len(s) - Len(t) + 1) : StartsAt(s, i, t)

\* String.prototype.indexOf, 1-based; 0 when absent
IndexOf(s, t) == IF Includes(s, t) THEN Min({i \in 1..Len(s) : StartsAt(s, i, t)}) ELSE 0

\* s.split(sep)[0]
SplitFirst(s, sep) == IF IndexOf(s, sep) = 0 THEN s ELSE SubSeq(s, 1, IndexOf(s, sep) - 1)

\* String.prototype.charAt, 1-based; "" outside the string
CharAt(s, i) == IF i >= 1 /\ i <= Len(s) THEN SubSeq(s, i, i) ELSE ""

\* last index of the longest run of characters outside excl that starts at i
RunEnd(s, i, excl) ==
    LET stops == {j \in i..Len(s) : CharAt(s, j) \in excl}
    IN  IF stops = {} THEN Len(s) ELSE Min(stops) - 1

\* the text a greedy negated character class captures from position i
Capture(s, i, excl) == SubSeq(s, i, RunEnd(s, i, excl))

--------------------------------------------------------------------------
(* DownloadService.extractYouTubeId: the ordered pattern list *)

\* A pattern is pre, an optional middle, post and a capture ([^excl]+):
\*   gap "none":  pre([^excl]+)
\*   gap "any":   pre.*post([^excl]+)
\*   gap "seg":   pre[^/]+post([^excl]+)
Pat(pre, gap, post, excl) == [pre |-> pre, gap |-> gap, post |-> post, excl |-> excl]

patterns ==
    << Pat("youtu.be/", "none", "", {"/"}),
       Pat("youtube.com/watch?v=", "none", "", {"/", "&"}),
       Pat("youtube.com/embed/", "none", "", {"/"}),
       Pat("youtube.com/v/", "none", "", {"/"}),
       Pat("youtube.com/shorts/", "none", "", {"/"}),
       Pat("youtube.com/watch?", "any", "v=", {"/", "&"}),
       Pat("m.youtube.com/watch?v=", "none", "", {"/", "&"}),
       Pat("youtube.com/embed/", "none", "", {"/"}),
       Pat("youtube-nocookie.com/embed/", "none", "", {"/"}),
       Pat("youtube.com/live/", "none", "", {"/"}),
       Pat("youtube.com/c/", "seg", "/videos/", {"/"}) >>

\* index where the capture group starts when the pattern is tried at position i; 0 = no match at i
CaptureStart(s, p, i) ==
    IF ~StartsAt(s, i, p.pre) THEN 0
    ELSE LET a == i + Len(p.pre)
             CanCapture(c) == c <= Len(s) /\ CharAt(s, c) \notin p.excl
         IN  CASE p.gap = "none" -> IF CanCapture(a) THEN a ELSE 0
               [] p.gap = "any"  ->
                    LET js == {j \in a..Len(s) : StartsAt(s, j, p.post) /\ CanCapture(j + Len(p.post))}
                    IN  IF js = {} THEN 0 ELSE Max(js) + Len(p.post)
               [] p.gap = "seg"  ->
                    LET e == RunEnd(s, a, {"/"})
                    IN  IF e >= a /\ StartsAt(s, e + 1, p.post) /\ CanCapture(e + 1 + Len(p.post))
                        THEN e + 1 + Len(p.post) ELSE 0

\* match[1] of s.match(pattern); "" when the pattern does not match
MatchPattern(s, p) ==
    LET starts == {i \in 1..Len(s) : CaptureStart(s, p, i) > 0}
    IN  IF starts = {} THEN "" ELSE Capture(s, CaptureStart(s, p, Min(starts)), p.excl)

WordChars ==
    { "a","b","c","d","e","f","g","h","i","j","k","l","m","n","o","p","q","r","s","t","u","v","w","x","y","z",
      "A","B","C","D","E","F","G","H","I","J","K","L","M","N","O","P","Q","R","S","T","U","V","W","X","Y","Z",
      "0","1","2","3","4","5","6","7","8","9","_" }

\* the alternatives of the fallback expression, in order; "." and "\w" are wildcards
regExpAlternatives ==
    << "youtu.be/", "v/", "u/w/", "embed/", "watch?v=", "&v=", "/videos/", "/embed/", "/v/", "/e/",
       "watch?v=", "?v=", "&v=", "embed?v=", "/v/", "/e/", "watch?v=", "?v=", "&v=" >>

\* does alternative n match at position k
AltMatches(s, k, n) ==
    CASE n = 1 -> StartsAt(s, k, "youtu") /\ k + 5 <= Len(s) /\ StartsAt(s, k + 6, "be/")
      [] n = 3 -> StartsAt(s, k, "u/") /\ CharAt(s, k + 2) \in WordChars /\ StartsAt(s, k + 3, "/")
      [] OTHER -> StartsAt(s, k, regExpAlternatives[n])

\* length matched by the first alternative that matches at k; 0 = none
AltLen(s, k) ==
    LET ns == {n \in 1..Len(regExpAlternatives) : AltMatches(s, k, n)}
    IN  IF ns = {} THEN 0 ELSE Len(regExpAlternatives[Min(ns)])

\* fallbackMatch[2] of cleanUrl.match(regExp): the greedy ^.* leaves the last position
\* where an alternative matches; "" when there is no match or the group is empty
FallbackMatch(s) ==
    LET ks == {k \in 1..Len(s) : AltLen(s, k) > 0}
    IN  IF ks = {} THEN "" ELSE Capture(s, Max(ks) + AltLen(s, Max(ks)), {"#", "&", "?"})

IdLength(m) == Len(m) = 11 \/ Len(m) = 10

cleanUrl(url) == SplitFirst(SplitFirst(url, "#"), "?si=")

\* the video ID, or "" where the code throws 'Could not extract YouTube ID'
extractYouTubeId(url) ==
    LET s    == cleanUrl(url)
        hits == {n \in 1..Len(patterns) : IdLength(MatchPattern(s, patterns[n]))}
    IN  IF hits # {} THEN MatchPattern(s, patterns[Min(hits)])
        ELSE IF IdLength(FallbackMatch(s)) THEN FallbackMatch(s) ELSE ""

--------------------------------------------------------------------------
(* DownloadService: inputs and outcomes the environment can produce *)

\* sample descriptors: blob references, platform URLs of several shapes, plain
\* media URLs, and URLs that merely mention a platform or "blob:" outside the host
Urls ==
    { "blob:https://www.youtube.com/0a1b2c3d",
      "https://www.youtube.com/watch?v=dQw4w9WgXcQ",
      "https://youtu.be/dQw4w9WgXcQ?si=AbCd",
      "https://www.youtube.com/shorts/dQw4w9WgXcQ?feature=share",
      "https://www.youtube.com/embed/videoseries?list=PL0123456789",
      "https://www.youtube.com/channel/UCabc",
      "https://vimeo.com/76979871",
      "https://example.com/media/a.jpg",
      "https://example.com/a.jpg?ref=youtube.com",
      "https://example.com/v.mp4#blob:1" }

Types == {"image", "video"}

Filenames == {"clip.mp4", "photo.jpg"}

MediaItems == [url : Urls, type : Types, filename : Filenames]

\* HTTP statuses a response can carry
Statuses == {200, 404, 500}

StatusText(st) == CASE st = 200 -> "OK" [] st = 404 -> "Not Found" [] OTHER -> "Internal Server Error"

OkAnyStatus(st) == TRUE

OkBelow500(st) == st < 500

\* response.ok
Ok(st) == st >= 200 /\ st <= 299

\* messages of the errors the runtime raises
FetchRejected == "Failed to fetch"
BodyRejected == "The network connection was lost"
JsonRejected == "Unexpected token < in JSON at position 0"

\* error field of the JSON body the local backend answers with ("" = no such field)
BackendErrorFields == {"", "yt-dlp failed with code 1"}

\* JSON replies of the external APIs ("" = field absent)
ApiReplies == [downloadUrl : {"", "https://cdn.example/a.mp4"}, url : {"", "https://cdn.example/b.mp4"}]

Call(op, arg) == [op |-> op, arg |-> arg]

--------------------------------------------------------------------------
(* DownloadService: pure parts *)

\* the branch downloadMedia takes
Dispatch(it) ==
    IF it.type = "video" /\ Includes(it.url, "blob:") THEN "blob"
    ELSE IF Includes(it.url, "youtube.com") \/ Includes(it.url, "youtu.be") \/ Includes(it.url, "vimeo.com")
         THEN "embedded"
         ELSE "direct"

\* downloadEmbeddedVideo: is the URL handed to the YouTube chain
IsYouTube(url) == Includes(url, "youtube.com") \/ Includes(url, "youtu.be")

\* the error downloadMedia rethrows
downloadMediaError(it) == "Failed to download " \o it.filename

\* the error downloadEmbeddedVideo rethrows
embeddedVideoError == "Failed to download YouTube video"

\* the error downloadYouTubeVideo throws after the loop
allServicesFailedError(last) ==
    "All YouTube download services failed. To use yt-dlp backend, please install yt-dlp (pip install yt-dlp) and run the server with 'npm run dev:full'. Last error: " \o last

\* the list downloadServices: what each entry fetches first
downloadServices == <<"backend", "api1", "api2">>

\* the reply field service i reads
UrlField(i, reply) == IF i = 2 THEN reply.downloadUrl ELSE reply.url

NextLastErrorKeepFirst(old, msg) == IF old = "" THEN msg ELSE old

\* lastError = error as Error
NextLastError(old, msg) == msg

LoopContinuesNoReturn(i, ok) == i < Len(downloadServices)

\* after downloadServices[i] settled: does the for loop go on to entry i + 1
LoopContinues(i, ok) == ~ok /\ i < Len(downloadServices)

createDownloadLinkSavesUrl(l, it, throws) == Append(l, Call("saveAs", it.url))

\* createDownloadLink: the anchor click, and window.open when it throws
createDownloadLink(l, it, throws) ==
    IF throws THEN l \o <<Call("anchor", it.url), Call("window.open", it.url)>>
    ELSE Append(l, Call("anchor", it.url))

--------------------------------------------------------------------------
(* DownloadService: the call as a state machine, one action per await point *)

ResolveOnlyWhenSaved(l) ==
    /\ pc' = IF l[Len(l)].op = "saveAs" THEN "resolved" ELSE "rejected"
    /\ result' = IF l[Len(l)].op = "saveAs" THEN "ok" ELSE downloadMediaError(item)
    /\ log' = l
    /\ resp' = 0

\* downloadMedia resolves
Resolve(l) ==
    /\ pc' = "resolved"
    /\ result' = "ok"
    /\ log' = l
    /\ resp' = 0

\* the catch of downloadMedia: whatever was thrown, reject with a new error
Reject ==
    /\ pc' = "rejected"
    /\ result' = downloadMediaError(item)
    /\ resp' = 0

\* downloadDirectMedia up to its first await
StartDirect ==
    /\ pc' = "proxy_fetch"
    /\ log' = Append(log, Call("fetch", "proxy"))

\* the catch of downloadDirectMedia up to its first await
StartNoCors ==
    /\ pc' = "nocors_fetch"
    /\ log' = Append(log, Call("fetch", "nocors"))
    /\ resp' = 0

blobVideoCatchFallsBack == StartNoCors /\ UNCHANGED result

\* the catch of downloadBlobVideo: log the error and rethrow it to downloadMedia
blobVideoCatch == Reject /\ UNCHANGED log

\* the for loop of downloadYouTubeVideo after downloadServices[i] settled with
\* success (ok) or with an error of message msg; l is the log so far
ServiceSettled(i, ok, msg, l) ==
    /\ svcErr' = IF ok THEN svcErr ELSE [svcErr EXCEPT ![i] = msg]
    /\ svcOk' = IF ok THEN svcOk \cup {i} ELSE svcOk
    /\ lastError' = IF ok THEN lastError ELSE NextLastError(lastError, msg)
    /\ IF LoopContinues(i, ok)
       THEN /\ svc' = i + 1
            /\ invoked' = Append(invoked, i + 1)
            /\ log' = Append(l, Call("fetch", downloadServices[i + 1]))
            /\ pc' = "api_fetch"
            /\ resp' = 0
            /\ UNCHANGED <<chainError, result>>
       ELSE IF ok
            THEN /\ Resolve(l)
                 /\ UNCHANGED <<svc, invoked, chainError>>
            ELSE /\ chainError' = allServicesFailedError(lastError')
                 /\ Reject
                 /\ log' = l
                 /\ UNCHANGED <<svc, invoked>>

\* downloadMedia -> the chosen branch, up to its first await
downloadMedia ==
    /\ pc = "start"
    /\ path' = Dispatch(item)
    /\ CASE Dispatch(item) = "blob" ->
              /\ pc' = "blob_fetch"
              /\ log' = Append(log, Call("fetch", "blob"))
              /\ UNCHANGED <<svc, resp, invoked, result>>
         [] Dispatch(item) = "embedded" /\ IsYouTube(item.url) ->
              IF extractYouTubeId(item.url) = ""
              THEN /\ Reject
                   /\ UNCHANGED <<svc, log, invoked>>
              ELSE /\ svc' = 1
                   /\ invoked' = <<1>>
                   /\ pc' = "s1_fetch"
                   /\ log' = Append(log, Call("fetch", downloadServices[1]))
                   /\ UNCHANGED <<resp, result>>
         [] OTHER ->
              /\ StartDirect
              /\ UNCHANGED <<svc, resp, invoked, result>>
    /\ UNCHANGED <<item, svcErr, svcOk, lastError, chainError>>
    /\ UNCHANGED notDL

\* downloadBlobVideo: fetch(item.url) settles
BlobFetch ==
    /\ pc = "blob_fetch"
    /\ \/ pc' = "blob_body" /\ resp' = 200 /\ UNCHANGED <<log, result>>
       \/ blobVideoCatch
    /\ UNCHANGED <<item, path, svc, invoked, svcErr, svcOk, lastError, chainError>>
    /\ UNCHANGED notDL

\* downloadBlobVideo: response.blob() settles, then saveAs
BlobBody ==
    /\ pc = "blob_body"
    /\ \/ Resolve(Append(log, Call("saveAs", item.filename)))
       \/ blobVideoCatch
    /\ UNCHANGED <<item, path, svc, invoked, svcErr, svcOk, lastError, chainError>>
    /\ UNCHANGED notDL

\* downloadDirectMedia: fetch(proxyUrl) settles
ProxyFetch ==
    /\ pc = "proxy_fetch"
    /\ \/ \E st \in Statuses :
            IF Ok(st) THEN pc' = "proxy_body" /\ resp' = st /\ UNCHANGED log
            ELSE StartNoCors
       \/ StartNoCors
    /\ UNCHANGED <<item, path, svc, invoked, svcErr, svcOk, lastError, chainError, result>>
    /\ UNCHANGED notDL

\* downloadDirectMedia: response.blob() of the proxy response settles, then saveAs
ProxyBody ==
    /\ pc = "proxy_body"
    /\ \/ Resolve(Append(log, Call("saveAs", item.filename)))
       \/ StartNoCors /\ UNCHANGED result
    /\ UNCHANGED <<item, path, svc, invoked, svcErr, svcOk, lastError, chainError>>
    /\ UNCHANGED notDL

\* downloadDirectMedia: fetch(item.url, no-cors) settles
NoCorsFetch ==
    /\ pc = "nocors_fetch"
    /\ \/ pc' = "nocors_body" /\ resp' = 0 /\ UNCHANGED <<log, result>>
       \/ \E throws \in BOOLEAN : Resolve(createDownloadLink(log, item, throws))
    /\ UNCHANGED <<item, path, svc, invoked, svcErr, svcOk, lastError, chainError>>
    /\ UNCHANGED notDL

\* downloadDirectMedia: response.blob() of the no-cors response settles, then saveAs
NoCorsBody ==
    /\ pc = "nocors_body"
    /\ \/ Resolve(Append(log, Call("saveAs", item.filename)))
       \/ \E throws \in BOOLEAN : Resolve(createDownloadLink(log, item, throws))
    /\ UNCHANGED <<item, path, svc, invoked, svcErr, svcOk, lastError, chainError>>
    /\ UNCHANGED notDL

\* service 1: fetch('/api/download-youtube') settles
BackendFetch ==
    /\ pc = "s1_fetch"
    /\ \/ \E st \in Statuses :
            /\ pc' = IF Ok(st) THEN "s1_body" ELSE "s1_errjson"
            /\ resp' = st
            /\ UNCHANGED <<svc, log, invoked, svcErr, svcOk, lastError, chainError, result>>
       \/ ServiceSettled(1, FALSE, FetchRejected, log)
    /\ UNCHANGED <<item, path>>
    /\ UNCHANGED notDL

\* service 1: response.json().catch(...) of a non-2xx response settles, then throw
BackendErrorJson ==
    /\ pc = "s1_errjson"
    /\ \E parsed \in BOOLEAN, e \in BackendErrorFields :
          LET error == IF parsed THEN e ELSE "Unknown error"
              shown == IF error # "" THEN error ELSE StatusText(resp)
          IN  ServiceSettled(1, FALSE, "Backend download failed: " \o shown, log)
    /\ UNCHANGED <<item, path>>
    /\ UNCHANGED notDL

\* service 1: response.blob() settles, then saveAs
BackendBody ==
    /\ pc = "s1_body"
    /\ \/ ServiceSettled(1, TRUE, "", Append(log, Call("saveAs", item.filename)))
       \/ ServiceSettled(1, FALSE, BodyRejected, log)
    /\ UNCHANGED <<item, path>>
    /\ UNCHANGED notDL

\* services 2 and 3: fetch of the API settles
ApiFetch ==
    /\ pc = "api_fetch"
    /\ \/ \E st \in Statuses :
            IF Ok(st)
            THEN /\ pc' = "api_json"
                 /\ resp' = st
                 /\ UNCHANGED <<svc, log, invoked, svcErr, svcOk, lastError, chainError, result>>
            ELSE ServiceSettled(svc, FALSE, "Service failed: " \o ToString(st), log)
       \/ ServiceSettled(svc, FALSE, FetchRejected, log)
    /\ UNCHANGED <<item, path>>
    /\ UNCHANGED notDL

\* services 2 and 3: response.json() settles, then the file fetch starts or the service throws
ApiJson ==
    /\ pc = "api_json"
    /\ \/ \E reply \in ApiReplies :
            IF UrlField(svc, reply) # ""
            THEN /\ pc' = "api_file"
                 /\ log' = Append(log, Call("fetch", UrlField(svc, reply)))
                 /\ resp' = 0
                 /\ UNCHANGED <<svc, invoked, svcErr, svcOk, lastError, chainError, result>>
            ELSE ServiceSettled(svc, FALSE, "No download URL provided", log)
       \/ ServiceSettled(svc, FALSE, JsonRejected, log)
    /\ UNCHANGED <<item, path>>
    /\ UNCHANGED notDL

\* services 2 and 3: fetch of the returned URL settles
ApiFile ==
    /\ pc = "api_file"
    /\ \/ \E st \in Statuses :
            IF Ok(st)
            THEN /\ pc' = "api_body"
                 /\ resp' = st
                 /\ UNCHANGED <<svc, log, invoked, svcErr, svcOk, lastError, chainError, result>>
            ELSE ServiceSettled(svc, FALSE, "Failed to download video file", log)
       \/ ServiceSettled(svc, FALSE, FetchRejected, log)
    /\ UNCHANGED <<item, path>>
    /\ UNCHANGED notDL

\* services 2 and 3: videoResponse.blob() settles, then saveAs
ApiBody ==
    /\ pc = "api_body"
    /\ \/ ServiceSettled(svc, TRUE, "", Append(log, Call("saveAs", item.filename)))
       \/ ServiceSettled(svc, FALSE, BodyRejected, log)
    /\ UNCHANGED <<item, path>>
    /\ UNCHANGED notDL

\* the await points of downloadMedia: a network call is pending
AwaitPoints ==
    {"blob_fetch", "blob_body", "proxy_fetch", "proxy_body", "nocors_fetch", "nocors_body",
     "s1_fetch", "s1_errjson", "s1_body", "api_fetch", "api_json", "api_file", "api_body"}

\* the synchronous part of downloadMedia ran: the call is at its first await
\* point, or has thrown
CallStarts == pc = "start" /\ pc' \in AwaitPoints \cup {"rejected"}

DLNext ==
    \/ downloadMedia
    \/ BlobFetch
    \/ BlobBody
    \/ ProxyFetch
    \/ ProxyBody
    \/ NoCorsFetch
    \/ NoCorsBody
    \/ BackendFetch
    \/ BackendErrorJson
    \/ BackendBody
    \/ ApiFetch
    \/ ApiJson
    \/ ApiFile
    \/ ApiBody

--------------------------------------------------------------------------
(* Properties of DownloadService *)

EndsWith(s, t) == Len(t) <= Len(s) /\ SubSeq(s, Len(s) - Len(t) + 1, Len(s)) = t

\* the first fetch of each entry of downloadServices, as they appear in the log
ServiceStarts == SelectSeq(log, LAMBDA c : c.op = "fetch" /\ \E k \in 1..Len(downloadServices) : c.arg = downloadServices[k])

\* C1: the backends of downloadYouTubeVideo are invoked in the order local backend,
\* external API #1, external API #2; backend k+1 is invoked only after backend k
\* failed; once a backend succeeded the call reports success and no later backend
\* is invoked.
C1_ChainOrder ==
    /\ \A k \in 1..Len(invoked) : invoked[k] = k
    /\ ServiceStarts = [k \in 1..Len(invoked) |-> Call("fetch", downloadServices[k])]
    /\ \A k \in 2..Len(invoked) : svcErr[k - 1] # "" /\ (k - 1) \notin svcOk
    /\ \A k \in svcOk : result = "ok" /\ Len(invoked) = k

\* backend 1 failed, backend 2 succeeded
C1_Witness ==
    /\ svcErr[1] # ""
    /\ svcOk = {2}
    /\ invoked = <<1, 2>>
    /\ result = "ok"

\* every backend of the chain has failed
AllServicesFailed == \A k \in 1..Len(downloadServices) : svcErr[k] # ""

\* C2: when all three backends fail, downloadYouTubeVideo throws a composite error
\* whose message ends with the message of the third backend's failure and carries
\* the yt-dlp installation hint.
C2_CompositeError ==
    AllServicesFailed =>
        /\ chainError # ""
        /\ EndsWith(chainError, "Last error: " \o svcErr[3])
        /\ Includes(chainError, "please install yt-dlp (pip install yt-dlp)")

\* all three failed, each with a different message
C2_Witness ==
    /\ AllServicesFailed
    /\ chainError # ""
    /\ svcErr[3] # svcErr[1]
    /\ svcErr[3] # svcErr[2]
    /\ svcErr[1] # svcErr[2]

\* C3: a failing backend is swallowed and the next one is tried, and when the whole
\* chain fails the error downloadMedia rejects with still contains the message of
\* the last backend's failure.
C3_LastErrorSurfaced ==
    /\ \A k \in 1..(Len(downloadServices) - 1) : svcErr[k] # "" => Len(invoked) > k
    /\ (AllServicesFailed /\ pc = "rejected") => Includes(result, svcErr[3])

\* the scheme of the URL is blob
IsBlobUrl(url) == StartsAt(url, 1, "blob:")

\* the host of the URL: what follows "://" up to the next "/", "?" or "#"
UrlHost(url) ==
    IF IndexOf(url, "://") = 0 THEN "" ELSE Capture(url, IndexOf(url, "://") + 3, {"/", "?", "#"})

\* the host is a video platform or one of its subdomains
PlatformHost(h) ==
    \E d \in {"youtube.com", "youtu.be", "vimeo.com"} : h = d \/ EndsWith(h, "." \o d)

\* the dispatch rule as the claim states it
DispatchRule(it) ==
    IF it.type = "video" /\ IsBlobUrl(it.url) THEN "blob"
    ELSE IF PlatformHost(UrlHost(it.url)) THEN "embedded"
    ELSE "direct"

\* C10: downloadMedia runs exactly one path: the blob path for a video with a blob
\* URL, otherwise the embedded-video path when the URL host is a video platform,
\* otherwise the direct-media path.
C10_Dispatch == path # "none" => path = DispatchRule(item)

Last(seq) == seq[Len(seq)]

\* C11: on the blob path a failure of the fetch or of the body read makes
\* downloadMedia reject, and nothing else is tried: no proxy fetch, no no-cors
\* fetch, no anchor trigger, no backend call.
C11_BlobFailureFatal ==
    path = "blob" =>
        /\ pc \in {"blob_fetch", "blob_body", "resolved", "rejected"}
        /\ invoked = <<>>
        /\ \A k \in 1..Len(log) : log[k] \in {Call("fetch", "blob"), Call("saveAs", item.filename)}
        /\ pc = "rejected" => result = downloadMediaError(item) /\ log = <<Call("fetch", "blob")>>
        /\ pc = "resolved" => log = <<Call("fetch", "blob"), Call("saveAs", item.filename)>>

\* a blob download that failed
C11_Witness ==
    /\ path = "blob"
    /\ pc = "rejected"
    /\ result # "ok"
    /\ result # "pending"

\* the call sequences downloadDirectMedia can have made for the item
DirectLogs(it) ==
    LET P == Call("fetch", "proxy")
        N == Call("fetch", "nocors")
        S == Call("saveAs", it.filename)
        A == Call("anchor", it.url)
        W == Call("window.open", it.url)
    IN  { <<P>>, <<P, S>>, <<P, N>>, <<P, N, S>>, <<P, N, A>>, <<P, N, A, W>> }

\* C12: on the direct-media path the steps run in the order proxy fetch, no-cors
\* fetch, anchor trigger; the no-cors fetch runs only after the proxy step failed
\* (a 2xx proxy response is the only one whose body is read), the anchor trigger
\* only after the no-cors step failed too, and nothing runs after a step saved
\* the file.
C12_DirectOrder ==
    path = "direct" =>
        /\ log \in DirectLogs(item)
        /\ pc = "proxy_body" => resp \in 200..299 /\ log = <<Call("fetch", "proxy")>>
        /\ pc = "resolved" <=> Last(log).op \in {"saveAs", "anchor", "window.open"}
        /\ pc # "rejected"

\* both fetches failed and the anchor was triggered
C12_Witness ==
    /\ path = "direct"
    /\ pc = "resolved"
    /\ log = <<Call("fetch", "proxy"), Call("fetch", "nocors"), Call("anchor", item.url)>>

\* C13: on the embedded-video path, when no video ID can be extracted from the
\* URL, the path fails with an error and no backend is invoked.
C13_NoIdFails ==
    (path = "embedded" /\ extractYouTubeId(item.url) = "") =>
        /\ invoked = <<>>
        /\ pc = "rejected"
        /\ result = downloadMediaError(item)

\* C14: every descriptor on the embedded-video path, YouTube or Vimeo, is
\* downloaded through the chain: the first call is the local backend and no
\* proxy fetch, no-cors fetch or anchor trigger is made.
C14_EmbeddedUsesChain ==
    (path = "embedded" /\ log # <<>>) =>
        /\ log[1] = Call("fetch", downloadServices[1])
        /\ invoked # <<>>
        /\ \A k \in 1..Len(log) : log[k].op # "anchor" /\ log[k].arg \notin {"proxy", "nocors"}

\* URLs of known shapes among Urls, each with the video ID it carries
KnownShapes ==
    { <<"https://www.youtube.com/watch?v=dQw4w9WgXcQ", "dQw4w9WgXcQ">>,
      <<"https://youtu.be/dQw4w9WgXcQ?si=AbCd", "dQw4w9WgXcQ">>,
      <<"https://www.youtube.com/shorts/dQw4w9WgXcQ?feature=share", "dQw4w9WgXcQ">> }

\* platform URLs among Urls that carry no video ID
NoVideoId ==
    { "https://www.youtube.com/channel/UCabc",
      "https://www.youtube.com/embed/videoseries?list=PL0123456789" }

\* C21: for every URL of a known shape, with or without tracking query
\* parameters, extractYouTubeId returns the video ID of that URL; every ID it
\* returns has length 10 or 11; for a URL without a video ID it throws, so the
\* chain is not started, and never returns a truncated or garbage ID.
C21_ExtractsVideoId ==
    (path = "embedded" /\ IsYouTube(item.url)) =>
        /\ \A s \in KnownShapes :
              item.url = s[1] => invoked # <<>> /\ extractYouTubeId(item.url) = s[2]
        /\ invoked # <<>> => IdLength(extractYouTubeId(item.url))
        /\ item.url \in NoVideoId => invoked = <<>> /\ pc = "rejected"

\* the calls of the save primitive made so far
SaveCalls == SelectSeq(log, LAMBDA c : c.op = "saveAs")

\* C28: the direct-media path cannot report failure: whatever the proxy fetch,
\* the no-cors fetch and the anchor trigger do, downloadMedia never rejects, and
\* it resolves also when the last step was the anchor trigger or window.open
\* and nothing was saved.
C28_DirectNeverFails ==
    (path = "direct" \/ (path = "embedded" /\ ~IsYouTube(item.url))) =>
        /\ pc # "rejected"
        /\ result \in {"pending", "ok"}
        /\ Last(log).op \in {"anchor", "window.open"} =>
              pc = "resolved" /\ result = "ok" /\ SaveCalls = <<>>

\* both fetches failed, the anchor click threw, and the call resolved
C28_Witness ==
    /\ path = "direct"
    /\ pc = "resolved"
    /\ result = "ok"
    /\ SaveCalls = <<>>
    /\ Last(log) = Call("window.open", item.url)

\* downloadMedia took the blob path or the YouTube chain
SavingPath == path = "blob" \/ (path = "embedded" /\ IsYouTube(item.url))

\* C29: in every execution of downloadMedia saveAs is called at most once and
\* with the descriptor's filename; on the blob path and on the chain it is called
\* exactly once when the call resolved and not at all when it rejected, and it
\* is the last step made (a strategy that failed saved nothing).
C29_SavedOnceIffSuccess ==
    /\ Len(SaveCalls) <= 1
    /\ \A k \in 1..Len(SaveCalls) : SaveCalls[k].arg = item.filename
    /\ SavingPath =>
          /\ pc = "resolved" => Len(SaveCalls) = 1
          /\ pc = "rejected" => Len(SaveCalls) = 0
          /\ Len(SaveCalls) = 1 => pc = "resolved" /\ Last(log).op = "saveAs"

\* two backends failed without saving, the third one saved the file
C29_Witness ==
    /\ svcErr[1] # ""
    /\ svcErr[2] # ""
    /\ svcOk = {3}
    /\ pc = "resolved"
    /\ SaveCalls = <<Call("saveAs", item.filename)>>

\* the fetches of a URL an external API returned: position in the log
FileFetches ==
    {k \in 1..Len(log) : log[k].op = "fetch" /\ StartsAt(log[k].arg, 1, "https://")}

\* C30: a non-2xx response counts as the strategy's failure and moves the chain
\* on: a body or a JSON reply is read only from a 2xx response, the file fetched
\* for API #1 is the reply's downloadUrl and for API #2 the reply's url (a reply
\* lacking the field is a failure), and a strategy that failed is not the one
\* that succeeded and is followed by the next strategy.
C30_Non2xxIsFailure ==
    /\ pc \in {"s1_body", "api_json", "api_body"} => resp \in 200..299
    /\ \A k \in FileFetches :
          \/ log[k - 1] = Call("fetch", "api1") /\ log[k].arg = "https://cdn.example/a.mp4"
          \/ log[k - 1] = Call("fetch", "api2") /\ log[k].arg = "https://cdn.example/b.mp4"
    /\ \A k \in 1..Len(downloadServices) :
          svcErr[k] # "" =>
              /\ k \notin svcOk
              /\ IF k < Len(downloadServices) THEN Len(invoked) > k ELSE pc = "rejected"

\* non-2xx from the local backend, no URL field from API #1, non-2xx for the
\* file of API #2
C30_Witness ==
    /\ StartsAt(svcErr[1], 1, "Backend download failed: ")
    /\ svcErr[2] = "No download URL provided"
    /\ svcErr[3] = "Failed to download video file"
    /\ FileFetches # {}
    /\ pc = "rejected"

--------------------------------------------------------------------------
(* DownloadService.downloadAll *)

\* longest list passed to downloadAll
MaxBatch == 3

\* sample descriptors: one per path of downloadMedia, and one without a video ID
BulkItems ==
    { [url |-> "blob:https://www.youtube.com/0a1b2c3d", type |-> "video", filename |-> "clip.mp4"],
      [url |-> "https://www.youtube.com/watch?v=dQw4w9WgXcQ", type |-> "video", filename |-> "clip.mp4"],
      [url |-> "https://www.youtube.com/channel/UCabc", type |-> "video", filename |-> "clip.mp4"],
      [url |-> "https://example.com/media/a.jpg", type |-> "image", filename |-> "photo.jpg"] }

\* how downloadMedia(it) can settle: the direct-media path only resolves, the
\* chain without a video ID only rejects, the other paths do either
CanSettle(it, ok) ==
    IF Dispatch(it) = "direct" \/ (Dispatch(it) = "embedded" /\ ~IsYouTube(it.url)) THEN ok
    ELSE IF Dispatch(it) = "embedded" /\ extractYouTubeId(it.url) = "" THEN ~ok
    ELSE TRUE

PromiseAll(promises) ==
    IF \E k \in 1..Len(promises) : promises[k].state = "rejected" THEN "rejected"
    ELSE IF \A k \in 1..Len(promises) : promises[k].state = "fulfilled" THEN "fulfilled"
    ELSE "pending"

\* the state of Promise.allSettled(downloadPromises)
PromiseAllSettled(promises) ==
    IF \A k \in 1..Len(promises) : promises[k].state # "pending" THEN "fulfilled" ELSE "pending"

\* downloadAll up to its await: items.map(item => this.downloadMedia(item))
downloadAll ==
    /\ bulk.pc = "start"
    /\ bulk' = [bulk EXCEPT !.pc = "await",
                    !.downloadPromises = [k \in 1..Len(bulk.items) |->
                                             [item |-> bulk.items[k], state |-> "pending"]]]
    /\ UNCHANGED notBulk

\* the downloadMedia call behind downloadPromises[k] settles
downloadMediaSettled(k, ok) ==
    /\ bulk.pc = "await"
    /\ bulk.downloadPromises[k].state = "pending"
    /\ CanSettle(bulk.downloadPromises[k].item, ok)
    /\ bulk' = [bulk EXCEPT !.downloadPromises[k].state = IF ok THEN "fulfilled" ELSE "rejected"]
    /\ UNCHANGED notBulk

\* await Promise.allSettled(downloadPromises) returns, or throws into the catch
\* block, which rethrows
downloadAllResumes ==
    /\ bulk.pc = "await"
    /\ PromiseAllSettled(bulk.downloadPromises) # "pending"
    /\ bulk' = [bulk EXCEPT !.pc = IF PromiseAllSettled(bulk.downloadPromises) = "fulfilled"
                                    THEN "resolved" ELSE "rejected"]
    /\ UNCHANGED notBulk

BulkNext ==
    \/ downloadAll
    \/ \E k \in 1..Len(bulk.downloadPromises), ok \in BOOLEAN : downloadMediaSettled(k, ok)
    \/ downloadAllResumes

\* the downloadPromises that have settled
SettledPromises ==
    {k \in 1..Len(bulk.downloadPromises) : bulk.downloadPromises[k].state \in {"fulfilled", "rejected"}}

\* C27: downloadAll starts a download for every item of the list, resolves only
\* after every one of those downloads has settled, fulfilled or rejected, and
\* never rejects, whatever subset of the downloads fails.
C27_AllSettledNeverRejects ==
    /\ bulk.pc \in {"await", "resolved", "rejected"} =>
          /\ Len(bulk.downloadPromises) = Len(bulk.items)
          /\ \A k \in 1..Len(bulk.items) : bulk.downloadPromises[k].item = bulk.items[k]
    /\ bulk.pc = "resolved" => SettledPromises = 1..Len(bulk.items)
    /\ bulk.pc # "rejected"

\* downloadAll resolved after two of three downloads failed
C27_Witness ==
    /\ bulk.pc = "resolved"
    /\ Len(bulk.items) = 3
    /\ Cardinality({k \in SettledPromises : bulk.downloadPromises[k].state = "rejected"}) = 2
    /\ Cardinality({k \in SettledPromises : bulk.downloadPromises[k].state = "fulfilled"}) = 1

--------------------------------------------------------------------------
(* MediaGrid: handleDownload and handleDownloadAll *)

\* number of items in the grid
NumItems == 3
\* number of individual Download clicks explored
MaxClicks == 1
\* number of Download All clicks explored
MaxRuns == 1
\* number of progress-interval ticks explored per attempt
MaxTicks == 1

\* the items prop: descriptors with distinct URLs
items ==
    [k \in 1..NumItems |->
        [url |-> "https://example.com/media/" \o ToString(k) \o ".jpg",
         type |-> "image",
         filename |-> ToString(k) \o ".jpg"]]

\* { ...prev, [key]: value }
Put(rec, key, value) == [k \in DOMAIN rec \cup {key} |-> IF k = key THEN value ELSE rec[k]]

\* delete newProgress[key]
Delete(rec, key) == [k \in DOMAIN rec \ {key} |-> rec[k]]

\* prev[key] || 0
GetOrZero(rec, key) == IF key \in DOMAIN rec THEN rec[key] ELSE 0

\* Math.min(a, b)
MathMin(a, b) == IF a <= b THEN a ELSE b

\* the guard of handleDownload, on the state its closure captured
GuardBlocks(url, dling, dled) == url \in dling \/ url \in dled

\* nonDownloadedItems of handleDownloadAll
nonDownloadedItems(dling, dled) ==
    SelectSeq(items, LAMBDA it : ~(it.url \in dling) /\ ~(it.url \in dled))

RunAfterHandleDownloadHangs(ok) == "await"

RunAfterHandleDownloadAbort(ok) == IF ok THEN "pause" ELSE "done"

\* where the loop of handleDownloadAll is after `await handleDownload(item)` returned:
\* handleDownload catches every error, so the loop always reaches the pause
RunAfterHandleDownload(ok) == "pause"

RunAfterCallNoAwait(started) == "pause"

\* where the loop is after calling handleDownload(item): awaiting its promise, which
\* is already settled when the guard made it return at once
RunAfterCall(started) == IF started THEN "await" ELSE "pause"

\* handleDownload(it) up to `await DownloadService.downloadMedia(it)`, called by owner
\* (0 = a Download button, r = run r of handleDownloadAll) with the state its closure
\* captured
handleDownload(it, dling, dled, owner) ==
    IF GuardBlocks(it.url, dling, dled)
    THEN UNCHANGED <<downloadingItems, downloadProgress, attempts>>
    ELSE /\ downloadingItems' = downloadingItems \cup {it.url}
         /\ downloadProgress' = Put(downloadProgress, it.url, 0)
         /\ attempts' = Append(attempts,
                [url |-> it.url, filename |-> it.filename, run |-> owner,
                 st |-> "downloading", ticks |-> 0, toast |-> "none"])

\* the run that awaits attempt a, or 0
AwaitingRun(a) ==
    LET rs == {r \in 1..Len(runs) : runs[r].st = "await" /\ runs[r].cur = a}
    IN  IF rs = {} THEN 0 ELSE Min(rs)

\* runs after attempt a settled: the run awaiting it moves on
RunsAfterSettle(a, ok) ==
    IF AwaitingRun(a) = 0 THEN runs
    ELSE [runs EXCEPT ![AwaitingRun(a)].st = RunAfterHandleDownload(ok)]

\* a click on the Download button of item k (enabled unless downloading or downloaded)
ClickDownload(k) ==
    /\ clicks < MaxClicks
    /\ ~(items[k].url \in downloadingItems \/ items[k].url \in downloadedItems)
    /\ clicks' = clicks + 1
    /\ handleDownload(items[k], downloadingItems, downloadedItems, 0)
    /\ UNCHANGED <<downloadedItems, runs>>
    /\ UNCHANGED notGrid

\* the progress interval of attempt a fires; it is cleared only on the success path
ProgressTick(a) ==
    /\ attempts[a].st \in {"downloading", "failed"}
    /\ attempts[a].ticks < MaxTicks
    /\ downloadProgress' = Put(downloadProgress, attempts[a].url,
                               MathMin(GetOrZero(downloadProgress, attempts[a].url) + 10, 90))
    /\ attempts' = [attempts EXCEPT ![a].ticks = @ + 1]
    /\ UNCHANGED <<downloadingItems, downloadedItems, runs, clicks>>
    /\ UNCHANGED notGrid

\* downloadMedia resolved: the rest of the try block of handleDownload
DownloadResolved(a) ==
    /\ attempts[a].st = "downloading"
    /\ downloadProgress' = Put(downloadProgress, attempts[a].url, 100)
    /\ attempts' = [attempts EXCEPT ![a].st = "succeeded", ![a].toast = "Download Complete"]
    /\ runs' = RunsAfterSettle(a, TRUE)
    /\ UNCHANGED <<downloadingItems, downloadedItems, clicks>>
    /\ UNCHANGED notGrid

\* downloadMedia rejected: the catch block of handleDownload
DownloadRejected(a) ==
    /\ attempts[a].st = "downloading"
    /\ downloadingItems' = downloadingItems \ {attempts[a].url}
    /\ downloadProgress' = Delete(downloadProgress, attempts[a].url)
    /\ attempts' = [attempts EXCEPT ![a].st = "failed", ![a].toast = "Download Failed"]
    /\ runs' = RunsAfterSettle(a, FALSE)
    /\ UNCHANGED <<downloadedItems, clicks>>
    /\ UNCHANGED notGrid

\* the 500 ms timer of a successful attempt fires; the 200 ms pause a run started
\* right after the attempt returned expires first
FinishTimer(a) ==
    /\ attempts[a].st = "succeeded"
    /\ ~\E r \in 1..Len(runs) : runs[r].st = "pause" /\ runs[r].cur = a
    /\ downloadingItems' = downloadingItems \ {attempts[a].url}
    /\ downloadedItems' = downloadedItems \cup {attempts[a].url}
    /\ downloadProgress' = Delete(downloadProgress, attempts[a].url)
    /\ attempts' = [attempts EXCEPT ![a].st = "done"]
    /\ UNCHANGED <<runs, clicks>>
    /\ UNCHANGED notGrid

\* run r calls handleDownload on entry idx of its list
RunCall(r, list, idx, dling, dled, rs) ==
    /\ handleDownload(list[idx], dling, dled, r)
    /\ runs' = [rs EXCEPT ![r].idx = idx,
                          ![r].cur = Len(attempts'),
                          ![r].st = RunAfterCall(~GuardBlocks(list[idx].url, dling, dled))]

\* a click on Download All: handleDownloadAll up to its first await
handleDownloadAll ==
    /\ Len(runs) < MaxRuns
    /\ LET list == nonDownloadedItems(downloadingItems, downloadedItems)
           new  == [list |-> list, dling |-> downloadingItems, dled |-> downloadedItems,
                    idx |-> 0, cur |-> 0, st |-> "done", toast |-> "Nothing to Download"]
       IN  IF Len(list) = 0
           THEN /\ runs' = Append(runs, new)
                /\ UNCHANGED <<downloadingItems, downloadProgress, attempts>>
           ELSE RunCall(Len(runs) + 1, list, 1, downloadingItems, downloadedItems,
                        Append(runs, [new EXCEPT !.toast = "Bulk Download Started"]))
    /\ UNCHANGED <<downloadedItems, clicks>>
    /\ UNCHANGED notGrid

\* the 200 ms pause of run r elapsed: next iteration of the loop, or the end
PauseElapsed(r) ==
    /\ runs[r].st = "pause"
    /\ IF runs[r].idx < Len(runs[r].list)
       THEN RunCall(r, runs[r].list, runs[r].idx + 1, runs[r].dling, runs[r].dled, runs)
       ELSE /\ runs' = [runs EXCEPT ![r].st = "done"]
            /\ UNCHANGED <<downloadingItems, downloadProgress, attempts>>
    /\ UNCHANGED <<downloadedItems, clicks>>
    /\ UNCHANGED notGrid

GridNext ==
    \/ \E k \in 1..NumItems : ClickDownload(k)
    \/ \E a \in 1..Len(attempts) : ProgressTick(a)
    \/ \E a \in 1..Len(attempts) : DownloadResolved(a)
    \/ \E a \in 1..Len(attempts) : DownloadRejected(a)
    \/ \E a \in 1..Len(attempts) : FinishTimer(a)
    \/ handleDownloadAll
    \/ \E r \in 1..Len(runs) : PauseElapsed(r)

--------------------------------------------------------------------------
(* The yt-dlp server: POST /api/download-youtube, GET /api/quality-options *)

\* number of requests explored
NumRequests == 2

\* Quality format mappings
qualityFormats ==
    [maximum |-> "bestvideo[height>=2160]+bestaudio/bestvideo[height>=1440]+bestaudio/bestvideo[height>=1080]+bestaudio/bestvideo+bestaudio/best",
     high    |-> "bestvideo[height<=1080][ext=mp4]+bestaudio[ext=m4a]/best[height<=1080][ext=mp4]/bestvideo[height<=1080]+bestaudio/best",
     medium  |-> "bestvideo[height<=720][ext=mp4]+bestaudio[ext=m4a]/best[height<=720][ext=mp4]/bestvideo[height<=720]+bestaudio/best",
     low     |-> "bestvideo[height<=480][ext=mp4]+bestaudio[ext=m4a]/best[height<=480][ext=mp4]/bestvideo[height<=480]+bestaudio/best",
     audio   |-> "bestaudio[ext=m4a]/bestaudio[ext=mp3]/bestaudio"]

\* the value fields of the options GET /api/quality-options answers with
qualityOptions == <<"maximum", "high", "medium", "low", "audio">>

\* qualityFormats is an object literal: a property read also finds what every
\* object inherits from Object.prototype
ObjectPrototypeKeys ==
    {"constructor", "toString", "valueOf", "hasOwnProperty", "isPrototypeOf",
     "propertyIsEnumerable", "toLocaleString", "__proto__"}

\* qualityFormats[quality]; "" where the read yields undefined
QualityLookup(quality) ==
    IF quality \in DOMAIN qualityFormats THEN qualityFormats[quality]
    ELSE IF quality \in ObjectPrototypeKeys THEN "function () { [native code] }"
    ELSE ""

\* request bodies explored (a JSON object: fields may be absent)
SampleUrl == "https://youtu.be/dQw4w9WgXcQ"
Bodies ==
    { [url |-> SampleUrl],
      [url |-> SampleUrl, filename |-> "clip.mp4", quality |-> "audio"],
      [url |-> SampleUrl, quality |-> "ultra"],
      [url |-> SampleUrl, quality |-> "constructor"],
      [filename |-> "clip.mp4", quality |-> "ultra"] }

\* const { url, filename, quality = 'high' } = req.body   ("" = undefined)
BodyUrl(body) == IF "url" \in DOMAIN body THEN body.url ELSE ""
BodyFilename(body) == IF "filename" \in DOMAIN body THEN body.filename ELSE ""
BodyQuality(body) == IF "quality" \in DOMAIN body THEN body.quality ELSE "high"

\* what the version probe can do: fail to start, exit nonzero, exit 0
ProbeOutcomes == {"error", "nonzero", "zero"}

checkYtDlpIgnoreError(outcome) == outcome # "nonzero"

\* the value checkYtDlp resolves with: 'error' resolves false, 'close' resolves code === 0
checkYtDlp(outcome) == outcome = "zero"

\* what a finished yt-dlp run leaves behind: exit code, produced file names, output
ToolResults ==
    [code : {0, 1}, files : {{}, {"Title.mp4"}, {"Title.mp4", "Title.webp"}},
     stderr : {"", "ERROR: Video unavailable"}, stdout : {"", "[youtube] Extracting URL"}]

TempDirNameShared(n) == "/tmp/ytdl-0"

\* fs.mkdtempSync(path.join(os.tmpdir(), 'ytdl-')): a directory name not used before
TempDirName(n) == "/tmp/ytdl-" \o ToString(n)

\* the argument list of the download subprocess
ytDlpArgs(quality, url, tempDir) ==
    LET base == <<"--format", QualityLookup(quality), "--output", tempDir \o "/%(title)s.%(ext)s",
                  "--no-playlist", "--restrict-filenames", "--embed-metadata">>
    IN  IF quality # "audio"
        THEN SubSeq(base, 1, 2) \o <<"--merge-output-format", "mp4">> \o SubSeq(base, 3, Len(base))
                 \o <<"--write-thumbnail", "--embed-thumbnail", url>>
        ELSE Append(base, url)

NoResponse == [status |-> 0, error |-> "", details |-> "", file |-> "", complete |-> FALSE]

\* res.status(status).json({ error, details })
Json(status, error, details) ==
    [status |-> status, error |-> error, details |-> details, file |-> "", complete |-> TRUE]

\* tool is what the download subprocess left when 'close' fired (code -1: no
\* download subprocess has exited)
IdleRequest ==
    [st |-> "idle", body |-> <<>>, probe |-> "none", tempDir |-> "",
     res |-> NoResponse, childError |-> FALSE,
     tool |-> [code |-> -1, files |-> {}, stderr |-> "", stdout |-> ""]]

RmSyncKeepsDir(files, dir) == files

\* fs.rmSync(dir, { recursive: true, force: true })
RmSync(files, dir) == [d \in DOMAIN files \ {dir} |-> files[d]]

\* the handler of POST /api/download-youtube up to `await checkYtDlp()`
Receive(q, body) ==
    /\ ~crashed
    /\ requests[q].st = "idle"
    /\ IF BodyUrl(body) = ""
       THEN /\ requests' = [requests EXCEPT ![q].st = "finished", ![q].body = body,
                                            ![q].res = Json(400, "URL is required", "")]
            /\ UNCHANGED procs
       ELSE IF QualityLookup(BodyQuality(body)) = ""
       THEN /\ requests' = [requests EXCEPT ![q].st = "finished", ![q].body = body,
                                            ![q].res = Json(400, "Invalid quality option", "")]
            /\ UNCHANGED procs
       ELSE /\ requests' = [requests EXCEPT ![q].st = "probing", ![q].body = body]
            /\ procs' = Append(procs, [req |-> q, kind |-> "probe", args |-> <<"--version">>])
    /\ UNCHANGED <<fs, crashed>>
    /\ UNCHANGED notServer

\* checkYtDlp settled: the handler from the tool check to the end of the try block
ProbeSettled(q, outcome, mkdtempThrows, spawnThrows) ==
    /\ ~crashed
    /\ requests[q].st = "probing"
    /\ LET r   == requests[q]
           dir == TempDirName(Cardinality({p \in 1..NumRequests : requests[p].tempDir # ""}) + 1)
       IN  IF ~checkYtDlp(outcome)
           THEN /\ requests' = [requests EXCEPT ![q].st = "finished", ![q].probe = outcome,
                      ![q].res = Json(500, "yt-dlp is not installed. Please install it with: pip install yt-dlp", "")]
                /\ UNCHANGED <<fs, procs>>
           ELSE IF mkdtempThrows
           THEN /\ requests' = [requests EXCEPT ![q].st = "finished", ![q].probe = outcome,
                      ![q].res = Json(500, "Internal server error", "ENOSPC: no space left on device, mkdtemp")]
                /\ UNCHANGED <<fs, procs>>
           ELSE IF spawnThrows
           THEN /\ fs' = [d \in DOMAIN fs \cup {dir} |-> IF d = dir THEN {} ELSE fs[d]]
                /\ requests' = [requests EXCEPT ![q].st = "finished", ![q].probe = outcome,
                      ![q].tempDir = dir,
                      ![q].res = Json(500, "Internal server error", "spawn E2BIG")]
                /\ UNCHANGED procs
           ELSE /\ fs' = [d \in DOMAIN fs \cup {dir} |-> IF d = dir THEN {} ELSE fs[d]]
                /\ requests' = [requests EXCEPT ![q].st = "running", ![q].probe = outcome,
                      ![q].tempDir = dir]
                /\ procs' = Append(procs, [req |-> q, kind |-> "download",
                      args |-> ytDlpArgs(BodyQuality(r.body), BodyUrl(r.body), dir)])
    /\ UNCHANGED crashed
    /\ UNCHANGED notServer

\* ytDlp.on('error'): the download subprocess could not be started
ChildError(q) ==
    /\ ~crashed
    /\ requests[q].st = "running"
    /\ fs' = RmSync(fs, requests[q].tempDir)
    /\ requests' = [requests EXCEPT ![q].st = "errored", ![q].childError = TRUE,
                        ![q].res = Json(500, "Failed to start yt-dlp", "spawn yt-dlp EAGAIN")]
    /\ UNCHANGED <<procs, crashed>>
    /\ UNCHANGED notServer

\* ytDlp.on('close') after 'error' (code < 0): rmSync, then res.status(500).json on a
\* response that was already sent throws out of the event handler
ChildCloseAfterError(q) ==
    /\ ~crashed
    /\ requests[q].st = "errored"
    /\ fs' = RmSync(fs, requests[q].tempDir)
    /\ requests' = [requests EXCEPT ![q].st = "finished"]
    /\ crashed' = TRUE
    /\ UNCHANGED procs
    /\ UNCHANGED notServer

\* the download subprocess ran and ytDlp.on('close') fires with its exit code;
\* files[0] of fs.readdirSync is whichever entry the directory lists first
ChildClose(q, out) ==
    /\ ~crashed
    /\ requests[q].st = "running"
    /\ LET r   == requests[q]
           dir == r.tempDir
       IN  IF out.code = 0
           THEN IF out.files # {}
                THEN /\ fs' = [fs EXCEPT ![dir] = out.files]
                     /\ \E first \in out.files :
                          requests' = [requests EXCEPT ![q].st = "streaming", ![q].tool = out,
                            ![q].res = [status |-> 200, error |-> "", details |-> "",
                                        file |-> dir \o "/" \o first, complete |-> FALSE]]
                ELSE /\ fs' = RmSync(fs, dir)
                     /\ requests' = [requests EXCEPT ![q].st = "finished", ![q].tool = out,
                            ![q].res = Json(500, "No file was downloaded", "")]
           ELSE /\ fs' = RmSync(fs, dir)
                /\ requests' = [requests EXCEPT ![q].st = "finished", ![q].tool = out,
                       ![q].res = Json(500, "yt-dlp failed with code " \o ToString(out.code),
                                       IF out.stderr # "" THEN out.stderr ELSE out.stdout)]
    /\ UNCHANGED <<procs, crashed>>
    /\ UNCHANGED notServer

StreamEndKeepsStreaming(q) ==
    /\ ~crashed
    /\ requests[q].st = "streaming"
    /\ requests[q].tempDir \in DOMAIN fs
    /\ fs' = RmSync(fs, requests[q].tempDir)
    /\ UNCHANGED <<requests, procs, crashed>>
    /\ UNCHANGED notServer

\* fileStream.on('end')
StreamEnd(q) ==
    /\ ~crashed
    /\ requests[q].st = "streaming"
    /\ fs' = RmSync(fs, requests[q].tempDir)
    /\ requests' = [requests EXCEPT ![q].st = "finished", ![q].res.complete = TRUE]
    /\ UNCHANGED <<procs, crashed>>
    /\ UNCHANGED notServer

\* fileStream.on('error'), before or after the first chunk went out
StreamError(q, headersSent) ==
    /\ ~crashed
    /\ requests[q].st = "streaming"
    /\ fs' = RmSync(fs, requests[q].tempDir)
    /\ requests' = [requests EXCEPT ![q].st = "finished",
           ![q].res = IF headersSent THEN requests[q].res ELSE Json(500, "Failed to send file", "")]
    /\ UNCHANGED <<procs, crashed>>
    /\ UNCHANGED notServer

ServerNext ==
    \/ \E q \in 1..NumRequests, body \in Bodies : Receive(q, body)
    \/ \E q \in 1..NumRequests, o \in ProbeOutcomes, mk \in BOOLEAN, sp \in BOOLEAN : ProbeSettled(q, o, mk, sp)
    \/ \E q \in 1..NumRequests : ChildError(q)
    \/ \E q \in 1..NumRequests : ChildCloseAfterError(q)
    \/ \E q \in 1..NumRequests, out \in ToolResults : ChildClose(q, out)
    \/ \E q \in 1..NumRequests : StreamEnd(q)
    \/ \E q \in 1..NumRequests, hs \in BOOLEAN : StreamError(q, hs)

--------------------------------------------------------------------------
(* Properties of MediaGrid *)

\* the attempts run r started, in start order
AttemptsOf(r) == SelectSeq(attempts, LAMBDA a : a.run = r)

UrlsOf(seq) == [k \in 1..Len(seq) |-> seq[k].url]

Settled(a) == a.st # "downloading"

\* the runs of handleDownloadAll that returned
FinishedRuns == {r \in 1..Len(runs) : runs[r].st = "done"}

\* one outcome is reported per attempt: a failure for a failed one, a success otherwise
OutcomesReported(r) ==
    \A k \in 1..Len(AttemptsOf(r)) :
        LET a == AttemptsOf(r)[k]
        IN  IF a.st = "failed" THEN a.toast = "Download Failed" ELSE a.toast = "Download Complete"

\* C4 as stated: a Download All over N descriptors attempts all N of them, whatever
\* subset fails, and reports one failure per failing item and one success per other.
C4_AllItemsAttempted ==
    \A r \in FinishedRuns :
        /\ UrlsOf(AttemptsOf(r)) = UrlsOf(items)
        /\ OutcomesReported(r)

\* C4 (amended): a Download All attempts, in list order, every descriptor that was
\* neither downloading nor downloaded when it was clicked, whatever subset of them
\* fails (all N on a fresh grid), and reports one failure per failing attempt and one
\* success per other attempt.
C4_BatchCompletes ==
    \A r \in FinishedRuns :
        /\ runs[r].list = nonDownloadedItems(runs[r].dling, runs[r].dled)
        /\ UrlsOf(AttemptsOf(r)) = UrlsOf(runs[r].list)
        /\ (runs[r].dling = {} /\ runs[r].dled = {}) => Len(AttemptsOf(r)) = NumItems
        /\ OutcomesReported(r)

\* a finished run over the whole list in which item 2 failed and the items after it
\* were attempted and succeeded
C4_Witness ==
    \E r \in FinishedRuns :
        /\ Len(AttemptsOf(r)) = NumItems
        /\ AttemptsOf(r)[2].st = "failed"
        /\ \A k \in 1..NumItems : k # 2 => AttemptsOf(r)[k].st \in {"succeeded", "done"}

\* C5: within a run of handleDownloadAll the items are attempted in list order, one at
\* a time: while the run awaits an attempt or pauses after it no later attempt of the
\* run has started, and an attempt starts only when all earlier ones of the run have
\* settled, so two attempts of the run are never in flight together.
C5_OneAtATime ==
    \A r \in 1..Len(runs) :
        LET mine == AttemptsOf(r)
            n    == Len(mine)
        IN  /\ UrlsOf(mine) = UrlsOf(SubSeq(runs[r].list, 1, n))
            /\ n = runs[r].idx
            /\ \A k \in 1..(n - 1) : Settled(mine[k])
            /\ runs[r].st \in {"pause", "done"} => \A k \in 1..n : Settled(mine[k])
            /\ Cardinality({k \in 1..n : ~Settled(mine[k])}) <= 1

\* the second item of a run is in flight after the first one failed
C5_Witness ==
    \E r \in 1..Len(runs) :
        /\ runs[r].st = "await"
        /\ Len(AttemptsOf(r)) = 2
        /\ AttemptsOf(r)[1].st = "failed"
        /\ AttemptsOf(r)[2].st = "downloading"

\* the URL has an attempt in flight: downloadMedia pending, or resolved with the
\* 500 ms completion timer still to fire
InFlight(url) ==
    \E a \in 1..Len(attempts) :
        attempts[a].url = url /\ attempts[a].st \in {"downloading", "succeeded"}

\* C23: the progress entry of a URL and its membership in downloadingItems exist
\* only while an attempt for that URL is in flight; after the attempt completed,
\* by success or by failure, no progress entry for the URL exists or is written
\* until a new attempt for it starts.
C23_StateOnlyInFlight ==
    \A url \in DOMAIN downloadProgress \cup downloadingItems : InFlight(url)

\* the attempts for the URL whose downloadMedia call is pending
Pending(url) ==
    {a \in 1..Len(attempts) : attempts[a].url = url /\ attempts[a].st = "downloading"}

\* C33: under any interleaving of Download clicks with a running Download All,
\* at most one download attempt per URL is in flight at any time, and no attempt
\* is in flight for a URL that is already marked downloaded.
C33_OneAttemptPerUrl ==
    \A k \in 1..NumItems :
        /\ Cardinality(Pending(items[k].url)) <= 1
        /\ items[k].url \in downloadedItems => Pending(items[k].url) = {}

\* C34: no URL is in both downloadingItems and downloadedItems, and a URL is in
\* downloadedItems only after an attempt for it resolved and completed.
C34_SetsDisjoint ==
    /\ downloadingItems \cap downloadedItems = {}
    /\ \A url \in downloadedItems :
          \E a \in 1..Len(attempts) : attempts[a].url = url /\ attempts[a].st = "done"

\* C35: the step in which an attempt for a URL fails leaves that URL in neither
\* downloadingItems nor downloadedItems, and leaves the membership in both sets
\* and the progress entry of every other URL as they were.
C35_FailureFrame ==
    [][\A a \in 1..Len(attempts) :
          (attempts[a].st = "downloading" /\ attempts'[a].st = "failed") =>
              /\ attempts[a].url \notin downloadingItems'
              /\ attempts[a].url \notin downloadedItems'
              /\ \A k \in 1..NumItems :
                    items[k].url # attempts[a].url =>
                        /\ items[k].url \in downloadingItems' <=> items[k].url \in downloadingItems
                        /\ items[k].url \in downloadedItems' <=> items[k].url \in downloadedItems
                        /\ items[k].url \in DOMAIN downloadProgress' <=> items[k].url \in DOMAIN downloadProgress
                        /\ GetOrZero(downloadProgress', items[k].url) = GetOrZero(downloadProgress, items[k].url)]_vars

\* run r returned after it attempted every item of its list
RunFinished(r) ==
    /\ Len(runs) >= r
    /\ runs[r].st = "done"
    /\ UrlsOf(AttemptsOf(r)) = UrlsOf(runs[r].list)

\* while a call is pending nothing later has started: the strategy being awaited
\* is the last one invoked and has not settled, and the attempt a run awaits is
\* the last one the run started
PendingBlocks ==
    /\ (pc \in AwaitPoints /\ svc > 0) =>
          /\ Len(invoked) = svc
          /\ svcErr[svc] = ""
          /\ svc \notin svcOk
    /\ \A r \in 1..Len(runs) :
          runs[r].st = "await" =>
              /\ attempts[runs[r].cur].st = "downloading"
              /\ Len(AttemptsOf(r)) = runs[r].idx
              /\ AttemptsOf(r)[runs[r].idx] = attempts[runs[r].cur]

\* C31: when every network call eventually resolves or rejects, the downloadMedia
\* call eventually settles and every run of handleDownloadAll eventually returns
\* after it attempted every item of its list; and as long as a call is pending
\* no later strategy is started for the item and no later item is attempted.
C31_Termination ==
    /\ (pc = "start") ~> (pc \in {"resolved", "rejected"})
    /\ \A r \in 1..MaxRuns : (Len(runs) >= r) ~> RunFinished(r)
    /\ []PendingBlocks

\* a run over the whole list returned although one of its items failed
C31_Witness ==
    /\ RunFinished(1)
    /\ Len(AttemptsOf(1)) = NumItems
    /\ \E k \in 1..NumItems : AttemptsOf(1)[k].st = "failed"

--------------------------------------------------------------------------
(* Properties of the server *)

\* the five quality presets
Presets == {"maximum", "high", "medium", "low", "audio"}

\* the subprocesses spawned for request q
ProcsOf(q) == SelectSeq(procs, LAMBDA p : p.req = q)

\* C6: once a request that created a temp directory has completed, on any exit path,
\* that directory no longer exists.
C6_TempDirRemoved ==
    \A q \in 1..NumRequests :
        (requests[q].st = "finished" /\ requests[q].tempDir # "")
            => requests[q].tempDir \notin DOMAIN fs

\* C7: a request whose quality is not one of the five presets is answered 400, and no
\* subprocess is spawned and no temp directory is created for it.
C7_InvalidQualityRejected ==
    \A q \in 1..NumRequests :
        (requests[q].st # "idle" /\ BodyQuality(requests[q].body) \notin Presets)
            => /\ requests[q].res.status = 400
               /\ ProcsOf(q) = <<>>
               /\ requests[q].tempDir = ""

\* C8: each preset maps to a non-empty format selector, the five selectors are
\* pairwise distinct, and the values GET /api/quality-options enumerates are exactly
\* the quality values POST /api/download-youtube accepts.
C8_QualityMapping ==
    /\ \A v \in Presets : v \in DOMAIN qualityFormats /\ qualityFormats[v] # ""
    /\ \A v, w \in Presets : v # w => qualityFormats[v] # qualityFormats[w]
    /\ {qualityOptions[i] : i \in 1..Len(qualityOptions)} = Presets
    /\ \A v \in Presets : QualityLookup(v) # ""
    /\ \A q \in 1..NumRequests :
          (requests[q].st # "idle" /\ BodyUrl(requests[q].body) # "" /\ requests[q].res.status # 400)
              => \E i \in 1..Len(qualityOptions) : qualityOptions[i] = BodyQuality(requests[q].body)

InstallInstruction == "Please install it with: pip install yt-dlp"

\* C9: when the version probe fails to start or exits nonzero the request is answered
\* 500 with the install instruction, no temp directory is created and no download
\* subprocess is spawned for it; the server dies only in the handlers of a download
\* subprocess that failed to start, never on the tool check.
C9_ToolAbsent ==
    /\ \A q \in 1..NumRequests :
          requests[q].probe \in {"error", "nonzero"}
              => /\ requests[q].st = "finished"
                 /\ requests[q].res.status = 500
                 /\ Includes(requests[q].res.error, InstallInstruction)
                 /\ requests[q].tempDir = ""
                 /\ \A k \in 1..Len(ProcsOf(q)) : ProcsOf(q)[k].kind = "probe"
    /\ crashed => \E q \in 1..NumRequests : requests[q].childError /\ requests[q].probe = "zero"

\* one request met a probe that failed to start, another a probe that exited nonzero
C9_Witness ==
    \E q, p \in 1..NumRequests :
        /\ requests[q].probe = "error"
        /\ requests[p].probe = "nonzero"
        /\ requests[q].res.status = 500
        /\ requests[p].res.status = 500

\* the download subprocess of request q exited with a nonzero code
ExitedNonzero(q) == requests[q].tool.code > 0

\* the download subprocess of request q exited with code 0 and left no file
ExitedEmpty(q) == requests[q].tool.code = 0 /\ requests[q].tool.files = {}

\* the download subprocess of request q exited with code 0 and left files
ExitedWithFiles(q) == requests[q].tool.code = 0 /\ requests[q].tool.files # {}

\* C24: when the download subprocess exits with a nonzero code the server deletes
\* the request's temp directory, streams no file and answers 500 with the
\* captured stderr (stdout when stderr is empty) as details; when it exits with
\* code 0 and left no file the server deletes the temp directory and answers 500.
C24_ToolFailureAnswered ==
    \A q \in 1..NumRequests :
        LET r == requests[q]
        IN  /\ ExitedNonzero(q) =>
                  /\ r.st = "finished"
                  /\ r.tempDir \notin DOMAIN fs
                  /\ r.res.status = 500
                  /\ r.res.complete
                  /\ r.res.file = ""
                  /\ r.res.error = "yt-dlp failed with code " \o ToString(r.tool.code)
                  /\ r.res.details = IF r.tool.stderr # "" THEN r.tool.stderr ELSE r.tool.stdout
            /\ ExitedEmpty(q) =>
                  /\ r.st = "finished"
                  /\ r.tempDir \notin DOMAIN fs
                  /\ r.res.status = 500
                  /\ r.res.file = ""

\* one run exited nonzero with output on stdout only, another exited 0 without a file
C24_Witness ==
    \E q, p \in 1..NumRequests :
        /\ ExitedNonzero(q)
        /\ requests[q].tool.stderr = ""
        /\ requests[q].res.details = requests[q].tool.stdout
        /\ requests[q].res.details # ""
        /\ ExitedEmpty(p)
        /\ requests[p].res.status = 500

\* C25: when the download subprocess exits with code 0 and left files, the server
\* streams one file of the temp directory, and the directory exists with those
\* files from the spawn until the stream has ended or errored: it is gone only
\* once the request has finished.
C25_RemovedAfterStream ==
    \A q \in 1..NumRequests :
        LET r == requests[q]
        IN  /\ ExitedWithFiles(q) => r.st \in {"streaming", "finished"}
            /\ r.st = "running" => r.tempDir \in DOMAIN fs
            /\ r.st = "streaming" =>
                  /\ ExitedWithFiles(q)
                  /\ r.tempDir \in DOMAIN fs
                  /\ fs[r.tempDir] = r.tool.files
                  /\ r.res.status = 200
                  /\ \E f \in r.tool.files : r.res.file = r.tempDir \o "/" \o f
            /\ (ExitedWithFiles(q) /\ r.tempDir \notin DOMAIN fs) => r.st = "finished"

\* a run that left two files was streamed to the end and its directory removed
C25_Witness ==
    \E q \in 1..NumRequests :
        /\ ExitedWithFiles(q)
        /\ Cardinality(requests[q].tool.files) = 2
        /\ requests[q].st = "finished"
        /\ requests[q].res.status = 200
        /\ requests[q].res.complete
        /\ requests[q].tempDir \notin DOMAIN fs

\* C26: concurrent requests are isolated: requests that reach the download step
\* have different temp directories, the file streamed to a request lies in its
\* own directory and was left there by its own subprocess, and the directory of
\* a request still running or streaming exists whatever other requests cleaned up.
C26_RequestsIsolated ==
    \A q \in 1..NumRequests :
        LET r == requests[q]
        IN  /\ \A p \in 1..NumRequests :
                  (p # q /\ r.tempDir # "") => requests[p].tempDir # r.tempDir
            /\ r.st \in {"running", "streaming"} => r.tempDir \in DOMAIN fs
            /\ r.st = "streaming" =>
                  /\ fs[r.tempDir] = r.tool.files
                  /\ \E f \in r.tool.files : r.res.file = r.tempDir \o "/" \o f

\* one request cleaned up its directory while another was still streaming
C26_Witness ==
    \E q, p \in 1..NumRequests :
        /\ requests[q].st = "streaming"
        /\ requests[q].tempDir \in DOMAIN fs
        /\ requests[p].st = "finished"
        /\ requests[p].tempDir # ""
        /\ requests[p].tempDir \notin DOMAIN fs

\* C32: each request is sent exactly one response: no handler writes a response
\* for a request that has already been answered (the write throws and ends the
\* server process), whatever the order of the subprocess and stream events, and
\* a request whose subprocess has finished has been answered.
C32_ExactlyOneResponse ==
    /\ ~crashed
    /\ \A q \in 1..NumRequests :
          /\ ~(requests[q].childError /\ requests[q].st = "finished")
          /\ requests[q].st = "finished" => requests[q].res.status # 0

--------------------------------------------------------------------------
(* MediaDetectionService: the URL parser of the runtime (new URL(...)) *)

\* String.prototype.lastIndexOf, 1-based; 0 when absent
LastIndexOf(s, t) == IF Includes(s, t) THEN Max({i \in 1..Len(s) : StartsAt(s, i, t)}) ELSE 0

\* the string from position i on
From(s, i) == SubSeq(s, i, Len(s))

\* an http(s) URL: scheme, "//", host, path
IsHttpUrl(u) == StartsAt(u, 1, "http://") \/ StartsAt(u, 1, "https://")

\* a data: URL: scheme and an opaque path
IsDataUrl(u) == StartsAt(u, 1, "data:")

\* new URL(u) does not throw
Parses(u) == IsHttpUrl(u) \/ IsDataUrl(u)

\* last index of the host of an http(s) URL
HostEnd(u) == RunEnd(u, IndexOf(u, "://") + 3, {"/", "?", "#"})

\* URL.origin of an http(s) URL
Origin(u) == SubSeq(u, 1, HostEnd(u))

\* URL.href: the serialised URL; an empty path of an http(s) URL becomes "/"
Href(u) ==
    IF IsHttpUrl(u) /\ ~StartsAt(u, HostEnd(u) + 1, "/")
    THEN Origin(u) \o "/" \o From(u, HostEnd(u) + 1)
    ELSE u

\* URL.pathname of a URL that parses
Pathname(u) ==
    IF IsHttpUrl(u) THEN Capture(Href(u), HostEnd(u) + 1, {"?", "#"})
    ELSE Capture(u, Len("data:") + 1, {"?", "#"})

\* new URL(url, baseUrl).href for a url that has no scheme: scheme-relative,
\* path-absolute, or relative to the directory of the base path
ResolveRelative(url, baseUrl) ==
    IF StartsAt(url, 1, "//") THEN Href(SubSeq(baseUrl, 1, IndexOf(baseUrl, "://")) \o url)
    ELSE IF StartsAt(url, 1, "/") THEN Origin(baseUrl) \o url
    ELSE Origin(baseUrl) \o SubSeq(Pathname(baseUrl), 1, LastIndexOf(Pathname(baseUrl), "/")) \o url

\* resolveUrl: the absolute URL, or the url itself when new URL throws
resolveUrl(url, baseUrl) ==
    IF Parses(url) THEN Href(url)
    ELSE IF IsHttpUrl(baseUrl) THEN ResolveRelative(url, baseUrl)
    ELSE url

\* extractFilename: last path segment up to its first dot, 'file' when empty or unparsable
extractFilename(url) ==
    IF ~Parses(url) THEN "file"
    ELSE LET pathname == Pathname(url)
             segment  == From(pathname, LastIndexOf(pathname, "/") + 1)
             filename == SplitFirst(segment, ".")
         IN  IF filename = "" THEN "file" ELSE filename

\* getFileExtension: match[1] of pathname.match(/\.([^.]+)$/); "" where the code returns null
getFileExtension(url) ==
    IF ~Parses(url) THEN ""
    ELSE LET pathname == Pathname(url)
         IN  IF LastIndexOf(pathname, ".") = 0 THEN "" ELSE From(pathname, LastIndexOf(pathname, ".") + 1)

\* a || b on strings
OrElse(a, b) == IF a # "" THEN a ELSE b

--------------------------------------------------------------------------
(* MediaDetectionService: descriptors *)

\* a MediaItem; "" stands for an absent optional field
MediaItem(url, type, filename, thumbnail) ==
    [url |-> url, type |-> type, filename |-> filename, size |-> "", dimensions |-> "", thumbnail |-> thumbnail]

\* the four patterns of MediaDetectionService.extractYouTubeId
MDS_patterns ==
    << Pat("youtu.be/", "none", "", {"/"}),
       Pat("youtube.com/watch?v=", "none", "", {"/", "&"}),
       Pat("youtube.com/embed/", "none", "", {"/"}),
       Pat("youtube.com/v/", "none", "", {"/"}) >>

\* MediaDetectionService.extractYouTubeId: the video ID, or "" where the code returns null
MDS_extractYouTubeId(url) ==
    LET s    == cleanUrl(url)
        hits == {n \in 1..Len(MDS_patterns) : IdLength(MatchPattern(s, MDS_patterns[n]))}
    IN  IF hits # {} THEN MatchPattern(s, MDS_patterns[Min(hits)]) ELSE ""

handleYouTubeUrlThumbnailOfUrl(url) ==
    << MediaItem(url, "video", "youtube_video.mp4", "https://img.youtube.com/vi/" \o From(url, LastIndexOf(url, "/") + 1) \o "/maxresdefault.jpg") >>

\* handleYouTubeUrl: one synthesized video descriptor
handleYouTubeUrl(url) ==
    LET videoId  == MDS_extractYouTubeId(url)
        filename == IF videoId # "" THEN "youtube_" \o videoId ELSE "youtube_video"
    IN  << MediaItem(url, "video", filename \o ".mp4",
                     IF videoId # "" THEN "https://img.youtube.com/vi/" \o videoId \o "/maxresdefault.jpg" ELSE "") >>

\* getSampleMediaItems: the fixed fallback list
getSampleMediaItems ==
    << [url |-> "https://images.unsplash.com/photo-1649972904349-6e44c42644a7", type |-> "image",
        filename |-> "sample-image-1.jpg", size |-> "2.4 MB", dimensions |-> "1920x1080",
        thumbnail |-> "https://images.unsplash.com/photo-1649972904349-6e44c42644a7?w=400"],
       [url |-> "https://images.unsplash.com/photo-1488590528505-98d2b5aba04b", type |-> "image",
        filename |-> "sample-image-2.jpg", size |-> "1.8 MB", dimensions |-> "1600x900",
        thumbnail |-> "https://images.unsplash.com/photo-1488590528505-98d2b5aba04b?w=400"],
       [url |-> "https://sample-videos.com/zip/10/mp4/SampleVideo_1280x720_1mb.mp4", type |-> "video",
        filename |-> "sample-video.mp4", size |-> "1.0 MB", dimensions |-> "1280x720", thumbnail |-> ""],
       [url |-> "https://www.soundjay.com/misc/sounds/bell-ringing-05.wav", type |-> "audio",
        filename |-> "sample-audio.wav", size |-> "0.5 MB", dimensions |-> "", thumbnail |-> ""],
       [url |-> "https://images.unsplash.com/photo-1516245834210-c4c142787335", type |-> "image",
        filename |-> "sample-image-3.jpg", size |-> "3.2 MB", dimensions |-> "1800x1200",
        thumbnail |-> "https://images.unsplash.com/photo-1516245834210-c4c142787335?w=400"] >>

--------------------------------------------------------------------------
(* MediaDetectionService: the parsed page and the extract* passes *)

\* largest number of elements in a sample document
MaxElements == 3

\* a DOM element: tag, src / data-src / style attributes ("" = absent) and, for a
\* video, the src attributes of its source children
Element(tag, src, dataSrc, style, sources) ==
    [tag |-> tag, src |-> src, dataSrc |-> dataSrc, style |-> style, sources |-> sources]

\* sample elements: site-relative, absolute, lazy-loaded and dotted-directory
\* images, videos with and without source children, platform and other iframes,
\* audio, and elements styled with and without a background image
Elements ==
    { Element("img", "/img/a.png", "", "", <<>>),
      Element("img", "https://example.com/img/a.png", "", "", <<>>),
      Element("img", "", "b.jpg", "", <<>>),
      Element("img", "https://cdn.example.com/v1.2/photo", "", "", <<>>),
      Element("video", "", "", "", <<"https://example.com/media/clip.webm", "https://example.com/media/clip">>),
      Element("video", "https://example.com/media/clip.webm", "", "", <<>>),
      Element("iframe", "https://www.youtube.com/embed/dQw4w9WgXcQ", "", "", <<>>),
      Element("iframe", "https://player.vimeo.com/video/76979871", "", "", <<>>),
      Element("iframe", "https://example.com/widget.html", "", "", <<>>),
      Element("audio", "media/song", "", "", <<>>),
      Element("div", "", "", "background-image: url('/img/a.png')", <<>>),
      Element("div", "", "", "background: #fff", <<>>) }

\* the documents the relay can serve: every sequence of sample elements
Documents == UNION {[1..n -> Elements] : n \in 0..MaxElements}

\* the pages detectMedia is called on: a page with a base URL that parses, one
\* typed without a scheme, and platform URLs of several shapes
PageUrls ==
    { "https://example.com/gallery/index.html",
      "example.com/gallery",
      "https://www.youtube.com/watch?v=dQw4w9WgXcQ",
      "https://m.youtube.com/watch?v=dQw4w9WgXcQ&t=5",
      "https://youtu.be/dQw4w9WgXcQ?si=AbCd",
      "https://www.youtube.com/shorts/dQw4w9WgXcQ",
      "https://www.youtube.com/channel/UCabc",
      "https://example.com/?ref=youtube.com" }

\* the filename template `${extractFilename(url) || fallback}.${getFileExtension(url) || ext}`
FilenameOf(url, fallback, ext) ==
    OrElse(extractFilename(url), fallback) \o "." \o OrElse(getFileExtension(url), ext)

\* extractImages: every img with a src or data-src
extractImages(d, baseUrl) ==
    LET Src(img) == OrElse(img.src, img.dataSrc)
        Item(img) == LET absoluteUrl == resolveUrl(Src(img), baseUrl)
                     IN  MediaItem(absoluteUrl, "image", FilenameOf(absoluteUrl, "image", "jpg"), absoluteUrl)
        imgElements == SelectSeq(d, LAMBDA e : e.tag = "img" /\ Src(e) # "")
    IN  [k \in 1..Len(imgElements) |-> Item(imgElements[k])]

\* extractVideos: per video element its own src and then its source children,
\* and after all of them the YouTube / Vimeo iframes with their src unresolved
extractVideos(d, baseUrl) ==
    LET Item(src) == LET absoluteUrl == resolveUrl(src, baseUrl)
                     IN  MediaItem(absoluteUrl, "video", FilenameOf(absoluteUrl, "video", "mp4"), "")
        Srcs(video) == SelectSeq(<<video.src>> \o video.sources, LAMBDA src : src # "")
        Frame(iframe) == MediaItem(iframe.src, "video", OrElse(extractFilename(iframe.src), "embedded-video") \o ".mp4", "")
        Embeds(e) == e.tag = "iframe" /\ e.src # "" /\ (Includes(e.src, "youtube.com") \/ Includes(e.src, "vimeo.com"))
        videoElements == SelectSeq(d, LAMBDA e : e.tag = "video")
        srcs[k \in 0..Len(videoElements)] == IF k = 0 THEN <<>> ELSE srcs[k - 1] \o Srcs(videoElements[k])
        iframes == SelectSeq(d, Embeds)
    IN  [k \in 1..Len(srcs[Len(videoElements)]) |-> Item(srcs[Len(videoElements)][k])]
            \o [k \in 1..Len(iframes) |-> Frame(iframes[k])]

\* extractAudio: every audio element with a src
extractAudio(d, baseUrl) ==
    LET Item(audioEl) == LET absoluteUrl == resolveUrl(audioEl.src, baseUrl)
                         IN  MediaItem(absoluteUrl, "audio", FilenameOf(absoluteUrl, "audio", "mp3"), "")
        audioElements == SelectSeq(d, LAMBDA e : e.tag = "audio" /\ e.src # "")
    IN  [k \in 1..Len(audioElements) |-> Item(audioElements[k])]

Whitespace == {" ", "\t", "\n"}

\* the position after the whitespace run that starts at i
SkipWhitespace(s, i) == Min({j \in i..(Len(s) + 1) : j = Len(s) + 1 \/ CharAt(s, j) \notin Whitespace})

Quotes == {"'", "\""}

\* bgImageMatch[1] of style.match(/background-image:\s*url\(['"]?([^'"]+)['"]?\)/);
\* "" when the style does not match
BgImageMatch(style) ==
    LET key == "background-image:"
        \* end of the capture when the expression is tried at position i; 0 = no match at i
        CaptureEnd(i) ==
            IF ~StartsAt(style, i, key) THEN 0
            ELSE LET u == SkipWhitespace(style, i + Len(key))
                     c == IF CharAt(style, u + 4) \in Quotes THEN u + 5 ELSE u + 4
                     Closes(j) == \/ StartsAt(style, j + 1, ")")
                                  \/ CharAt(style, j + 1) \in Quotes /\ StartsAt(style, j + 2, ")")
                     ends == {j \in c..RunEnd(style, c, Quotes) : Closes(j)}
                 IN  IF StartsAt(style, u, "url(") /\ ends # {} THEN Max(ends) ELSE 0
        CaptureFrom(i) ==
            LET u == SkipWhitespace(style, i + Len(key))
            IN  IF CharAt(style, u + 4) \in Quotes THEN u + 5 ELSE u + 4
        starts == {i \in 1..Len(style) : CaptureEnd(i) > 0}
    IN  IF starts = {} THEN "" ELSE SubSeq(style, CaptureFrom(Min(starts)), CaptureEnd(Min(starts)))

\* extractCSSMedia: background images of the elements whose style mentions "background"
extractCSSMedia(d, baseUrl) ==
    LET Item(element) == LET url == resolveUrl(BgImageMatch(element.style), baseUrl)
                         IN  MediaItem(url, "image", FilenameOf(url, "background", "jpg"), url)
        elementsWithStyle == SelectSeq(d, LAMBDA e : Includes(e.style, "background") /\ BgImageMatch(e.style) # "")
    IN  [k \in 1..Len(elementsWithStyle) |-> Item(elementsWithStyle[k])]

\* mediaItems after the four push(...) calls
Collected(d, baseUrl) ==
    extractImages(d, baseUrl) \o extractVideos(d, baseUrl) \o extractAudio(d, baseUrl) \o extractCSSMedia(d, baseUrl)

uniqueMediaKeepAll(self) == self

uniqueMediaKeepLast(self) ==
    LET indexed == [k \in 1..Len(self) |-> [index |-> k, item |-> self[k]]]
        Keep(p) == p.index = Max({j \in 1..Len(self) : self[j].url = p.item.url})
        kept == SelectSeq(indexed, Keep)
    IN  [k \in 1..Len(kept) |-> kept[k].item]

\* mediaItems.filter((item, index, self) => index === self.findIndex(t => t.url === item.url))
uniqueMedia(self) ==
    LET indexed == [k \in 1..Len(self) |-> [index |-> k, item |-> self[k]]]
        findIndex(url) == Min({j \in 1..Len(self) : self[j].url = url})
        Keep(p) == p.index = findIndex(p.item.url)
        kept == SelectSeq(indexed, Keep)
    IN  [k \in 1..Len(kept) |-> kept[k].item]

--------------------------------------------------------------------------
(* MediaDetectionService.detectMedia as a state machine, one action per await point *)

detectCatchRethrows(why) ==
    /\ dpc' = "threw"
    /\ failure' = why
    /\ detected' = <<>>

\* the catch of detectMedia: whatever was thrown, resolve with the sample list
detectCatch(why) ==
    /\ dpc' = "returned"
    /\ failure' = why
    /\ detected' = getSampleMediaItems

\* detectMedia up to its first await: the YouTube shortcut, or the relay fetch
detectMedia ==
    /\ dpc = "start"
    /\ IF Includes(pageUrl, "youtube.com") \/ Includes(pageUrl, "youtu.be")
       THEN /\ dpc' = "returned"
            /\ detected' = handleYouTubeUrl(pageUrl)
            /\ UNCHANGED fetched
       ELSE /\ dpc' = "fetch"
            /\ fetched' = fetched + 1
            /\ UNCHANGED detected
    /\ UNCHANGED <<pageUrl, failure, doc, mediaItems>>
    /\ UNCHANGED notDetect

\* fetch(proxyUrl) settles: rejection and non-2xx statuses go to the catch
PageFetch ==
    /\ dpc = "fetch"
    /\ \/ detectCatch("network")
       \/ \E st \in Statuses :
            IF Ok(st) THEN dpc' = "body" /\ UNCHANGED <<failure, detected>>
            ELSE detectCatch("status")
    /\ UNCHANGED <<pageUrl, fetched, doc, mediaItems>>
    /\ UNCHANGED notDetect

\* response.json() or response.text() settles; then the parse, the four extract
\* passes and the duplicate filter run without another await
PageBody ==
    /\ dpc = "body"
    /\ \/ \E why \in {"json", "text"} :
            /\ detectCatch(why)
            /\ UNCHANGED <<doc, mediaItems>>
       \/ \E d \in Documents, throws \in BOOLEAN :
            /\ doc' = d
            /\ IF throws
               THEN /\ detectCatch("extraction")
                    /\ UNCHANGED mediaItems
               ELSE /\ mediaItems' = Collected(d, pageUrl)
                    /\ detected' = uniqueMedia(mediaItems')
                    /\ dpc' = "returned"
                    /\ UNCHANGED failure
    /\ UNCHANGED <<pageUrl, fetched>>
    /\ UNCHANGED notDetect

DetectNext ==
    \/ detectMedia
    \/ PageFetch
    \/ PageBody

--------------------------------------------------------------------------
(* Properties of MediaDetectionService *)

\* C15: detectMedia never propagates an error, and whenever the fetch, the body
\* read or the extraction failed (network error, non-2xx relay response,
\* unparsable body, exception during extraction) it resolves with exactly the
\* fixed placeholder list.
C15_FailsSoftly ==
    /\ dpc # "threw"
    /\ failure # "" =>
          /\ dpc = "returned"
          /\ detected = getSampleMediaItems
          /\ Len(detected) = 5

\* the relay answered with a non-2xx status and the placeholder list came back
C15_Witness ==
    /\ failure = "status"
    /\ dpc = "returned"
    /\ fetched = 1
    /\ detected # <<>>

\* C16: no two descriptors of a returned list (extracted, synthesized for a
\* platform URL, or the placeholder list) have the same url.
C16_UniqueUrls ==
    dpc = "returned" =>
        \A i, j \in 1..Len(detected) : i # j => detected[i].url # detected[j].url

\* a page whose collected list had duplicates and still yields several descriptors
C16_Witness ==
    /\ dpc = "returned"
    /\ failure = ""
    /\ Len(mediaItems) > Len(detected)
    /\ Len(detected) >= 2

\* index of the first descriptor of seq with the given url
FirstIndex(seq, url) == Min({j \in 1..Len(seq) : seq[j].url = url})

\* the list is images, then videos, then audio, then images again (CSS backgrounds)
InCollectionOrder(seq) ==
    \E a, b, c \in 0..Len(seq) :
        /\ a <= b /\ b <= c
        /\ \A k \in 1..Len(seq) :
              seq[k].type = CASE k <= a -> "image" [] k <= b -> "video" [] k <= c -> "audio" [] OTHER -> "image"

\* C17: the returned list is the collected list (images, videos, audio, CSS
\* backgrounds) with every later descriptor of an already-seen url removed:
\* every collected url appears, each survivor is the first descriptor collected
\* for its url, and the survivors keep their relative order.
C17_DedupFirstSeen ==
    (dpc = "returned" /\ fetched > 0 /\ failure = "") =>
        /\ InCollectionOrder(mediaItems)
        /\ {detected[k].url : k \in 1..Len(detected)} = {mediaItems[k].url : k \in 1..Len(mediaItems)}
        /\ \A k \in 1..Len(detected) : detected[k] = mediaItems[FirstIndex(mediaItems, detected[k].url)]
        /\ \A k, l \in 1..Len(detected) :
              k < l => FirstIndex(mediaItems, detected[k].url) < FirstIndex(mediaItems, detected[l].url)

\* a url collected first, then another url, then the first one again
C17_Witness ==
    /\ dpc = "returned"
    /\ failure = ""
    /\ Len(mediaItems) = 3
    /\ mediaItems[1].url = mediaItems[3].url
    /\ mediaItems[1].url # mediaItems[2].url
    /\ Len(detected) = 2

\* the path of a URL: without scheme, host, query and fragment
UrlPath(url) ==
    LET bare == SplitFirst(SplitFirst(url, "#"), "?")
    IN  IF IndexOf(bare, "://") = 0 THEN bare
        ELSE From(bare, RunEnd(bare, IndexOf(bare, "://") + 3, {"/"}) + 1)

\* the extension of the last segment of the URL path; "" when it has none
PathExtension(url) ==
    LET segment == From(UrlPath(url), LastIndexOf(UrlPath(url), "/") + 1)
    IN  IF LastIndexOf(segment, ".") = 0 THEN "" ELSE From(segment, LastIndexOf(segment, ".") + 1)

DefaultExtension(type) == CASE type = "image" -> "jpg" [] type = "video" -> "mp4" [] OTHER -> "mp3"

\* C18: every returned descriptor of kind image, video or audio has a non-empty
\* filename ending in a dot and an extension: the one found in the URL path when
\* there is one, otherwise jpg, mp4 or mp3 by kind.
C18_FilenameHasExtension ==
    dpc = "returned" =>
        \A k \in 1..Len(detected) :
            detected[k].type \in {"image", "video", "audio"} =>
                LET ext == OrElse(PathExtension(detected[k].url), DefaultExtension(detected[k].type))
                IN  /\ EndsWith(detected[k].filename, "." \o ext)
                    /\ Len(detected[k].filename) > Len(ext) + 1

\* the host of the URL is YouTube's
IsYouTubeUrl(url) ==
    \E d \in {"youtube.com", "youtu.be"} : UrlHost(url) = d \/ EndsWith(UrlHost(url), "." \o d)

\* the thumbnail as a function of the video ID
ThumbnailOf(videoId) ==
    IF videoId = "" THEN "" ELSE "https://img.youtube.com/vi/" \o videoId \o "/maxresdefault.jpg"

\* C19: for a YouTube pageUrl detectMedia makes no fetch and returns exactly one
\* descriptor, of kind video, with the input URL as url and a thumbnail that is
\* determined by the extracted video ID alone.
C19_YouTubeShortcut ==
    (IsYouTubeUrl(pageUrl) /\ dpc # "start") =>
        /\ dpc = "returned"
        /\ fetched = 0
        /\ Len(detected) = 1
        /\ detected[1].type = "video"
        /\ detected[1].url = pageUrl
        /\ detected[1].thumbnail = ThumbnailOf(MDS_extractYouTubeId(pageUrl))

\* a YouTube URL with an extractable ID was turned into a descriptor with a thumbnail
C19_Witness ==
    /\ IsYouTubeUrl(pageUrl)
    /\ dpc = "returned"
    /\ Len(detected) = 1
    /\ detected[1].thumbnail # ""
    /\ Includes(pageUrl, "&t=5")

\* C22: the detector and the download path extract the same video ID from every
\* URL or both extract none: the ID in the descriptor the detector synthesizes is
\* the ID DownloadService.extractYouTubeId resolves the descriptor's URL to.
C22_SameExtraction ==
    (IsYouTubeUrl(pageUrl) /\ dpc = "returned") =>
        /\ MDS_extractYouTubeId(pageUrl) = extractYouTubeId(pageUrl)
        /\ Len(detected) = 1
        /\ detected[1].thumbnail = ThumbnailOf(extractYouTubeId(detected[1].url))

\* C20: for a YouTube pageUrl from which neither the ordered patterns nor the
\* catch-all pattern extract an ID, detection fails: no video descriptor for that
\* URL is returned.
C20_NoIdDetectionFails ==
    (IsYouTubeUrl(pageUrl) /\ extractYouTubeId(pageUrl) = "" /\ dpc = "returned") =>
        \A k \in 1..Len(detected) : ~(detected[k].type = "video" /\ detected[k].url = pageUrl)

--------------------------------------------------------------------------
(* Specifications *)

\* one downloadMedia call on any of the sample descriptors; grid and server at rest
InitDownload ==
    /\ item \in MediaItems
    /\ pc = "start"
    /\ path = "none"
    /\ svc = 0
    /\ resp = 0
    /\ log = <<>>
    /\ invoked = <<>>
    /\ svcErr = [i \in 1..Len(downloadServices) |-> ""]
    /\ svcOk = {}
    /\ lastError = ""
    /\ chainError = ""
    /\ result = "pending"
    /\ downloadingItems = {}
    /\ downloadedItems = {}
    /\ downloadProgress = <<>>
    /\ attempts = <<>>
    /\ runs = <<>>
    /\ clicks = 0
    /\ requests = [q \in 1..NumRequests |-> IdleRequest]
    /\ fs = <<>>
    /\ procs = <<>>
    /\ crashed = FALSE
    /\ pageUrl = ""
    /\ dpc = "idle"
    /\ fetched = 0
    /\ failure = ""
    /\ doc = <<>>
    /\ mediaItems = <<>>
    /\ detected = <<>>
    /\ bulk = [pc |-> "idle", items |-> <<>>, downloadPromises |-> <<>>]

\* a freshly mounted MediaGrid; no downloadMedia call under observation
InitGrid ==
    /\ downloadingItems = {}
    /\ downloadedItems = {}
    /\ downloadProgress = <<>>
    /\ attempts = <<>>
    /\ runs = <<>>
    /\ clicks = 0
    /\ item = [url |-> "", type |-> "other", filename |-> ""]
    /\ pc = "idle"
    /\ path = "none"
    /\ svc = 0
    /\ resp = 0
    /\ log = <<>>
    /\ invoked = <<>>
    /\ svcErr = [i \in 1..Len(downloadServices) |-> ""]
    /\ svcOk = {}
    /\ lastError = ""
    /\ chainError = ""
    /\ result = "pending"
    /\ requests = [q \in 1..NumRequests |-> IdleRequest]
    /\ fs = <<>>
    /\ procs = <<>>
    /\ crashed = FALSE
    /\ pageUrl = ""
    /\ dpc = "idle"
    /\ fetched = 0
    /\ failure = ""
    /\ doc = <<>>
    /\ mediaItems = <<>>
    /\ detected = <<>>
    /\ bulk = [pc |-> "idle", items |-> <<>>, downloadPromises |-> <<>>]

\* a freshly started server; no downloadMedia call under observation
InitServer ==
    /\ requests = [q \in 1..NumRequests |-> IdleRequest]
    /\ fs = <<>>
    /\ procs = <<>>
    /\ crashed = FALSE
    /\ item = [url |-> "", type |-> "other", filename |-> ""]
    /\ pc = "idle"
    /\ path = "none"
    /\ svc = 0
    /\ resp = 0
    /\ log = <<>>
    /\ invoked = <<>>
    /\ svcErr = [i \in 1..Len(downloadServices) |-> ""]
    /\ svcOk = {}
    /\ lastError = ""
    /\ chainError = ""
    /\ result = "pending"
    /\ downloadingItems = {}
    /\ downloadedItems = {}
    /\ downloadProgress = <<>>
    /\ attempts = <<>>
    /\ runs = <<>>
    /\ clicks = 0
    /\ pageUrl = ""
    /\ dpc = "idle"
    /\ fetched = 0
    /\ failure = ""
    /\ doc = <<>>
    /\ mediaItems = <<>>
    /\ detected = <<>>
    /\ bulk = [pc |-> "idle", items |-> <<>>, downloadPromises |-> <<>>]

\* one detectMedia call on any of the sample pages; everything else at rest
InitDetect ==
    /\ pageUrl \in PageUrls
    /\ dpc = "start"
    /\ fetched = 0
    /\ failure = ""
    /\ doc = <<>>
    /\ mediaItems = <<>>
    /\ detected = <<>>
    /\ item = [url |-> "", type |-> "other", filename |-> ""]
    /\ pc = "idle"
    /\ path = "none"
    /\ svc = 0
    /\ resp = 0
    /\ log = <<>>
    /\ invoked = <<>>
    /\ svcErr = [i \in 1..Len(downloadServices) |-> ""]
    /\ svcOk = {}
    /\ lastError = ""
    /\ chainError = ""
    /\ result = "pending"
    /\ downloadingItems = {}
    /\ downloadedItems = {}
    /\ downloadProgress = <<>>
    /\ attempts = <<>>
    /\ runs = <<>>
    /\ clicks = 0
    /\ requests = [q \in 1..NumRequests |-> IdleRequest]
    /\ fs = <<>>
    /\ procs = <<>>
    /\ crashed = FALSE
    /\ bulk = [pc |-> "idle", items |-> <<>>, downloadPromises |-> <<>>]

\* one downloadAll call on any list of sample descriptors; everything else at rest
InitBulk ==
    /\ bulk \in [pc : {"start"}, items : UNION {[1..n -> BulkItems] : n \in 0..MaxBatch},
                  downloadPromises : {<<>>}]
    /\ item = [url |-> "", type |-> "other", filename |-> ""]
    /\ pc = "idle"
    /\ path = "none"
    /\ svc = 0
    /\ resp = 0
    /\ log = <<>>
    /\ invoked = <<>>
    /\ svcErr = [i \in 1..Len(downloadServices) |-> ""]
    /\ svcOk = {}
    /\ lastError = ""
    /\ chainError = ""
    /\ result = "pending"
    /\ downloadingItems = {}
    /\ downloadedItems = {}
    /\ downloadProgress = <<>>
    /\ attempts = <<>>
    /\ runs = <<>>
    /\ clicks = 0
    /\ requests = [q \in 1..NumRequests |-> IdleRequest]
    /\ fs = <<>>
    /\ procs = <<>>
    /\ crashed = FALSE
    /\ pageUrl = ""
    /\ dpc = "idle"
    /\ fetched = 0
    /\ failure = ""
    /\ doc = <<>>
    /\ mediaItems = <<>>
    /\ detected = <<>>

SpecDownload == InitDownload /\ [][DLNext]_vars

SpecGrid == InitGrid /\ [][GridNext]_vars

SpecServer == InitServer /\ [][ServerNext]_vars

SpecDetect == InitDetect /\ [][DetectNext]_vars

SpecBulk == InitBulk /\ [][BulkNext]_vars

\* either one downloadMedia call on any of the sample descriptors, or a freshly
\* mounted MediaGrid (pc = "idle": no downloadMedia call under observation)
InitTermination ==
    /\ \/ item \in MediaItems /\ pc = "start"
       \/ item = [url |-> "", type |-> "other", filename |-> ""] /\ pc = "idle"
    /\ path = "none"
    /\ svc = 0
    /\ resp = 0
    /\ log = <<>>
    /\ invoked = <<>>
    /\ svcErr = [i \in 1..Len(downloadServices) |-> ""]
    /\ svcOk = {}
    /\ lastError = ""
    /\ chainError = ""
    /\ result = "pending"
    /\ downloadingItems = {}
    /\ downloadedItems = {}
    /\ downloadProgress = <<>>
    /\ attempts = <<>>
    /\ runs = <<>>
    /\ clicks = 0
    /\ requests = [q \in 1..NumRequests |-> IdleRequest]
    /\ fs = <<>>
    /\ procs = <<>>
    /\ crashed = FALSE
    /\ pageUrl = ""
    /\ dpc = "idle"
    /\ fetched = 0
    /\ failure = ""
    /\ doc = <<>>
    /\ mediaItems = <<>>
    /\ detected = <<>>
    /\ bulk = [pc |-> "idle", items |-> <<>>, downloadPromises |-> <<>>]

\* the steps of the downloadMedia call, and the steps of the grid when the grid
\* is what is observed
TerminationNext ==
    \/ downloadMedia
    \/ BlobFetch
    \/ BlobBody
    \/ ProxyFetch
    \/ ProxyBody
    \/ NoCorsFetch
    \/ NoCorsBody
    \/ BackendFetch
    \/ BackendErrorJson
    \/ BackendBody
    \/ ApiFetch
    \/ ApiJson
    \/ ApiFile
    \/ ApiBody
    \/ pc = "idle" /\ \E k \in 1..NumItems : ClickDownload(k)
    \/ pc = "idle" /\ \E a \in 1..Len(attempts) : ProgressTick(a)
    \/ pc = "idle" /\ \E a \in 1..Len(attempts) : DownloadResolved(a)
    \/ pc = "idle" /\ \E a \in 1..Len(attempts) : DownloadRejected(a)
    \/ pc = "idle" /\ \E a \in 1..Len(attempts) : FinishTimer(a)
    \/ pc = "idle" /\ handleDownloadAll
    \/ pc = "idle" /\ \E r \in 1..Len(runs) : PauseElapsed(r)

\* a call that was made runs to its first await point, every network call
\* settles (each await point of downloadMedia is left, each downloadMedia call
\* the grid awaits settles) and every timer fires
SpecTermination ==
    /\ InitTermination
    /\ [][TerminationNext]_vars
    /\ WF_pc(CallStarts)
    /\ WF_vars(BlobFetch \/ BlobBody \/ ProxyFetch \/ ProxyBody \/ NoCorsFetch \/ NoCorsBody
                 \/ BackendFetch \/ BackendErrorJson \/ BackendBody
                 \/ ApiFetch \/ ApiJson \/ ApiFile \/ ApiBody)
    /\ WF_vars(\E a \in 1..Len(attempts) : DownloadResolved(a) \/ DownloadRejected(a))
    /\ WF_vars(\E a \in 1..Len(attempts) : FinishTimer(a))
    /\ WF_vars(\E r \in 1..Len(runs) : PauseElapsed(r))

==========================================================================
